---- MODULE Spec2Model ----
(***************************************************************************)
(* A model of optimal_route (src/caculate_optimal_route.py): the route     *)
(* computation pipeline of the routing tool.                               *)
(*                                                                         *)
(* Units.  A coordinate is an integer number of 1e-5 degrees (0.00001      *)
(* degree, about 1.11 m at the equator), written <<lon, lat>>.  A distance *)
(* is an integer number of metres, a rounded segment length an integer     *)
(* number of hundredths of a kilometre.  A text is a sequence of tokens    *)
(* (strings); the text of a table cell or of an error message is what the  *)
(* tokens spell when written one after the other.                          *)
(*                                                                         *)
(* A table (pandas DataFrame) is [columns |-> <<name, ...>>,               *)
(* rows |-> <<row, ...>>], a row being the tuple of the cells in column    *)
(* order.  The input tables of the model have three columns: one holding   *)
(* the latitudes, one holding the longitudes, one holding the identifiers, *)
(* under names the caller chose.                                           *)
(***************************************************************************)
EXTENDS Integers, Sequences, FiniteSets, TLC

VARIABLES
    pc,                     \* position of the invocation in optimal_route
    input_source,           \* the caller's tables and identifier field
    input_final_stop,
    input_destinations,
    input_dest_id_field,
    source,                 \* the working copies (GeoDataFrames)
    final_stop,
    destinations,
    vehicle,                \* the routing request
    jobs,
    all_points_for_lookup,
    e,                      \* the exception the optimization call raised
    raised,                 \* the exception optimal_route fails with
    steps,                  \* opt['routes'][0]['steps']
    job_sequence,
    locations,
    ordered_coords,
    route_segments,
    dest_names,
    opt_requests,           \* requests sent to the optimization service
    dir_requests,           \* requests sent to the directions service
    dir_request,            \* the request sent to it (<<>>: none yet)
    directions,             \* the response of the directions service
    gdf,                    \* what add_road_surface_id returned (line 194)
    route_detailed,         \* the path segments
    result,                 \* what optimal_route returned
    surface_stats,          \* the surface statistics the application shows
    table_html,             \* the table of the dialog the application
                            \* shows (<<>>: none)
    peer,                   \* the frame of another invocation of
                            \* optimal_route, suspended while this one
                            \* runs (<<>>: there is none)
    ors_client,             \* the client of the module (line 16), which
                            \* every invocation calls
    \* the session of the application (src/routing_app_v3.py, server)
    input_method,           \* input.input_method()
    rendered,               \* the browser has reported the inputs of the
                            \* controls of this method
    uploaded_files,         \* the reactive values of lines 163-178
    dest_id_field,
    selected_destinations,
    stored_result,          \* the reactive value 'result'
    map_click_mode,
    map_clicked_points,
    source_select,          \* input.source_select()
    final_stop_select,      \* input.final_stop_select()
    category_filter,        \* input.category_filter()
    destination_search,     \* input.destination_search()
    map_clicked_coords,     \* input.map_clicked_coords()
    modal                   \* the dialog that is open ("none": no dialog)

vars == <<pc, input_source, input_final_stop, input_destinations,
          input_dest_id_field, source, final_stop, destinations, vehicle,
          jobs, all_points_for_lookup, e, raised, steps, job_sequence,
          locations, ordered_coords, route_segments, dest_names,
          opt_requests, dir_requests, dir_request, directions,
          gdf, route_detailed, result,
          surface_stats, table_html, peer, ors_client,
          input_method, rendered, uploaded_files, dest_id_field,
          selected_destinations, stored_result, map_click_mode,
          map_clicked_points, source_select, final_stop_select,
          category_filter, destination_search, map_clicked_coords, modal>>

\* what the steps up to the route segments leave alone
later_vars == <<dir_requests, dir_request, directions, gdf, route_detailed,
               result,
               surface_stats, table_html>>

\* the session of the application, which optimal_route does not see
app_vars == <<input_method, rendered, uploaded_files, dest_id_field,
              selected_destinations, stored_result, map_click_mode,
              map_clicked_points, source_select, final_stop_select,
              category_filter, destination_search, map_clicked_coords,
              modal>>

\* None
None == <<>>

\* the invocations of optimal_route, which the dialogs leave alone
call_vars == <<pc, input_source, input_final_stop, input_destinations,
               input_dest_id_field, source, final_stop, destinations,
               vehicle, jobs, all_points_for_lookup, e, raised, steps,
               job_sequence, locations, ordered_coords, route_segments,
               dest_names, opt_requests, dir_requests, dir_request,
               directions, gdf, route_detailed, result, peer, ors_client>>

\* src/routing_app_v3.py, lines 163-178: the reactive values of a new
\* session, and the inputs of a page nobody has touched yet
ServerStart ==
    /\ input_method = "select"
    /\ rendered = TRUE
    /\ uploaded_files = [source |-> None, final_stop |-> None,
                         destinations |-> None]
    /\ dest_id_field = None
    /\ selected_destinations = <<>>
    /\ stored_result = None
    /\ map_click_mode = "none"
    /\ map_clicked_points = [source |-> None, final_stop |-> None,
                             destinations |-> <<>>]
    /\ source_select = <<>>
    /\ final_stop_select = <<>>
    /\ category_filter = <<>>
    /\ destination_search = <<>>
    /\ map_clicked_coords = None
    /\ modal = "none"

-----------------------------------------------------------------------------
(* Bounds of the model *)

\* destinations of one invocation of the whole pipeline
MaxDest == 2

(* Program constants *)

\* 0.0001 degree, in units of 1e-5 degree
Tolerance == 10
\* metres
BufferRadius == 10
JobPriority == 1
VehicleId == 1

-----------------------------------------------------------------------------
(* Small helpers *)

Abs(x) == IF x < 0 THEN 0 - x ELSE x

Range(s) == {s[i] : i \in DOMAIN s}

\* all sequences over S of length 0..n
SeqsUpTo(S, n) == UNION {[1..k -> S] : k \in 0..n}

\* the first index of s whose element is x (0 when there is none)
IndexOf(s, x) ==
    IF \E i \in DOMAIN s : s[i] = x
    THEN CHOOSE i \in DOMAIN s : s[i] = x /\ \A j \in 1..(i-1) : s[j] # x
    ELSE 0

-----------------------------------------------------------------------------
(* Column names: df.columns.str.lower() and df.rename(...) *)

\* str.lower on the column names and the texts the model uses
Lower(name) ==
    CASE name = "Latitude"  -> "latitude"
      [] name = "LATITUDE"  -> "latitude"
      [] name = "Longitude" -> "longitude"
      [] name = "Lat"       -> "lat"
      [] name = "LON"       -> "lon"
      [] name = "Y"         -> "y"
      [] name = "X"         -> "x"
      [] name = "Name"      -> "name"
      [] name = "ID"        -> "id"
      [] name = "Destination " -> "destination "
      [] OTHER              -> name

\* a mutant of Rename: names that are no alias are renamed too
Rename_loose(name) ==
    CASE name = "latitude"  -> "lat"
      [] name = "longitude" -> "lon"
      [] name = "y"         -> "lat"
      [] name = "x"         -> "lon"
      [] name = "northing"  -> "lat"
      [] name = "easting"   -> "lon"
      [] name = "lon_deg"   -> "lon"
      [] OTHER              -> name

\* rename(columns={'latitude': 'lat', 'longitude': 'lon', 'y': 'lat', 'x': 'lon'})
Rename(name) ==
    CASE name = "latitude"  -> "lat"
      [] name = "longitude" -> "lon"
      [] name = "y"         -> "lat"
      [] name = "x"         -> "lon"
      [] OTHER              -> name

\* the column names of a table after the harmonization loop
HarmonizedColumns(columns) ==
    [i \in DOMAIN columns |-> Rename(Lower(columns[i]))]

HasColumn(columns, c) == \E i \in DOMAIN columns : columns[i] = c

\* the cells of column c, one per row (the first column of that name)
Column(table, c) ==
    [r \in DOMAIN table.rows |-> table.rows[r][IndexOf(table.columns, c)]]

\* gpd.points_from_xy(df.lon, df.lat): the attribute access raises
\* AttributeError when the table has no such column
MissingCoordinate(columns) ==
    ~HasColumn(columns, "lon") \/ ~HasColumn(columns, "lat")

\* a mutant of Geometry: the rows are taken last to first
Geometry_reversed(table) ==
    [r \in DOMAIN table.rows |->
        <<Column(table, "lon")[Len(table.rows) + 1 - r],
          Column(table, "lat")[Len(table.rows) + 1 - r]>>]

\* geometry=gpd.points_from_xy(df.lon, df.lat): one point <<lon, lat>> per row
Geometry(table) ==
    [r \in DOMAIN table.rows |->
        <<Column(table, "lon")[r], Column(table, "lat")[r]>>]

\* df.copy(), the harmonization of its column names, and the GeoDataFrame
GeoDataFrame(table) ==
    LET t == [columns |-> HarmonizedColumns(table.columns), rows |-> table.rows]
    IN  [columns |-> t.columns, rows |-> t.rows, geometry |-> Geometry(t)]

-----------------------------------------------------------------------------
(* Exceptions *)

\* the text of a service error, by what the two patterns of optimal_route
\* read in it:
\*   routable:   it contains 'Could not find routable point'
\*   unfound:    it contains 'Unfound route(s) from location'
\*   coordinate: <<c>> when it contains 'coordinate N: <lon> <lat>' with the
\*               decimal numerals of c, <<>> when it does not
\*   location:   <<c>> when it contains 'location [<lon>,<lat>]', else <<>>
NoMessage == [routable |-> FALSE, unfound |-> FALSE,
              coordinate |-> <<>>, location |-> <<>>]

NoError == [type |-> "None", name |-> "", message |-> NoMessage]

Exception(type, name, message) ==
    [type |-> type, name |-> name, message |-> message]


\* the exception of the openrouteservice client for an error response
ApiError(message) == Exception("ApiError", "", message)

\* any other failure of the request (exceptions.Timeout, a connection error):
\* no ApiError, and no text of either shape
Timeout == Exception("Timeout", "", NoMessage)

-----------------------------------------------------------------------------
(* Lines 11-16: the client of the module.  It is made once, when the       *)
(* module is imported, and optimal_route calls its methods (lines 58 and   *)
(* 161) without ever binding the name again: every invocation calls the    *)
(* same object.  Of what the object keeps the model has the key and the    *)
(* request made through it last.                                           *)

\* os.environ.get('OPENROUTESERVICE_KEY')
ors_api_key == "OPENROUTESERVICE_KEY"

\* ors.Client(key=...): no request has been made through it
Client(key) == [key |-> key, req |-> <<>>]

\* the client after a request has been made through it
Called(client, request) == [client EXCEPT !.req = request]

\* the request of line 58
OptimizationRequest(job_list, veh) ==
    [jobs |-> job_list, vehicles |-> <<veh>>, geometry |-> TRUE]

-----------------------------------------------------------------------------
(* Lines 20-34: the working copies *)

\* df[c] = value: the column is overwritten, or appended when absent
SetColumn(table, c, value) ==
    IF HasColumn(table.columns, c)
    THEN [columns |-> table.columns,
          rows |-> [r \in DOMAIN table.rows |->
                      [i \in DOMAIN table.columns |->
                          IF table.columns[i] = c THEN value
                          ELSE table.rows[r][i]]]]
    ELSE [columns |-> Append(table.columns, c),
          rows |-> [r \in DOMAIN table.rows |-> Append(table.rows[r], value)]]

\* the attribute whose access fails first in points_from_xy(df.lon, df.lat)
MissingAttribute(columns) ==
    IF ~HasColumn(columns, "lon") THEN "lon" ELSE "lat"

\* a mutant of CallerTable: the working table is the caller's table itself
CallerTable_aliased(input, working) == working

\* the caller's table after lines 20-29: df.copy() made the working table
\* another object, and what is done to it leaves the caller's as it was
CallerTable(input, working) == input

\* lines 27-29 on a working table
Harmonized(table) ==
    [columns |-> HarmonizedColumns(table.columns), rows |-> table.rows]

\* the three tables in the order lines 32-34 convert them
WorkingTables ==
    <<SetColumn(input_source, "name", "Starting point"),
      SetColumn(input_final_stop, "name", "Final stop"),
      input_destinations>>

Normalize ==
    /\ pc = "start"
    /\ UNCHANGED app_vars
    /\ LET cols == [k \in 1..3 |-> HarmonizedColumns(WorkingTables[k].columns)]
           bad  == {k \in 1..3 : MissingCoordinate(cols[k])}
       IN  IF bad # {}
           THEN LET k == CHOOSE x \in bad : \A y \in bad : x <= y
                IN  /\ raised' = Exception("AttributeError",
                                           MissingAttribute(cols[k]), NoMessage)
                    /\ pc' = "failed"
                    /\ UNCHANGED <<source, final_stop, destinations>>
           ELSE /\ source' = GeoDataFrame(WorkingTables[1])
                /\ final_stop' = GeoDataFrame(WorkingTables[2])
                /\ destinations' = GeoDataFrame(WorkingTables[3])
                /\ pc' = "normalized"
                /\ UNCHANGED raised
    /\ input_source' = CallerTable(input_source, Harmonized(WorkingTables[1]))
    /\ input_final_stop' =
           CallerTable(input_final_stop, Harmonized(WorkingTables[2]))
    /\ input_destinations' =
           CallerTable(input_destinations, Harmonized(WorkingTables[3]))
    /\ UNCHANGED <<input_dest_id_field, vehicle, jobs, all_points_for_lookup,
                   e, steps, job_sequence, locations, ordered_coords,
                   route_segments, dest_names, opt_requests, later_vars,
                   peer, ors_client>>

-----------------------------------------------------------------------------
(* Lines 36-54: the routing request and the lookup list *)

\* a mutant of Jobs: the ids are the 0-based positions
Jobs_zeroBased(stops) ==
    [i \in DOMAIN stops |->
        [id |-> i - 1, location |-> stops[i], priority |-> JobPriority]]

\* [Job(id=i+1, location=loc, priority=1) for i, loc in enumerate(stops)]
Jobs(stops) ==
    [i \in DOMAIN stops |->
        [id |-> i, location |-> stops[i], priority |-> JobPriority]]

\* Vehicle(id=1, profile="driving-hgv", start=home_base, end=final_dest)
Vehicle(home_base, final_dest) ==
    [id |-> VehicleId, profile |-> "driving-hgv",
     start |-> home_base, end |-> final_dest]

\* input.get('name', pd.Series([default])).iloc[0]: the column is looked up
\* in the caller's table, under the caller's spelling
NameOrDefault(input, default) ==
    IF HasColumn(input.columns, "name") THEN Column(input, "name")[1]
    ELSE default

LookupEntry(name, point) == [name |-> name, lon |-> point[1], lat |-> point[2]]

\* row[input_dest_id_field] if input_dest_id_field in row else "Unnamed Destination"
PointName(frame, r, id_field) ==
    IF HasColumn(frame.columns, id_field) THEN Column(frame, id_field)[r]
    ELSE "Unnamed Destination"

\* a mutant of AllPointsForLookup: the final stop is left out
AllPointsForLookup_noFinal(src, fin, dst, id_field) ==
    <<LookupEntry(NameOrDefault(input_source, "Starting point"), src.geometry[1])>>
    \o [r \in DOMAIN dst.rows |->
          LookupEntry(PointName(dst, r, id_field), dst.geometry[r])]

\* all_points_for_lookup: source, final stop, destinations in row order
AllPointsForLookup(src, fin, dst, id_field) ==
    <<LookupEntry(NameOrDefault(input_source, "Starting point"), src.geometry[1]),
      LookupEntry(NameOrDefault(input_final_stop, "Final stop"), fin.geometry[1])>>
    \o [r \in DOMAIN dst.rows |->
          LookupEntry(PointName(dst, r, id_field), dst.geometry[r])]

BuildRequest ==
    /\ pc = "normalized"
    /\ UNCHANGED app_vars
    /\ vehicle' = Vehicle(source.geometry[1], final_stop.geometry[1])
    /\ jobs' = Jobs(destinations.geometry)
    /\ all_points_for_lookup' =
           AllPointsForLookup(source, final_stop, destinations,
                              input_dest_id_field)
    /\ pc' = "built"
    /\ UNCHANGED <<input_source, input_final_stop, input_destinations,
                   input_dest_id_field, source, final_stop, destinations,
                   e, raised, steps, job_sequence, locations, ordered_coords,
                   route_segments, dest_names, opt_requests, later_vars,
                   peer, ors_client>>

-----------------------------------------------------------------------------
(* Lines 56-89: the optimization call and the classification of its error *)

\* the coordinate the two regular expressions read in the message: <<c>>,
\* or <<>> when the shape is not recognized or the pattern does not match
ParsedCoordinate(message) ==
    IF message.routable THEN message.coordinate
    ELSE IF message.unfound THEN message.location
    ELSE <<>>

-----------------------------------------------------------------------------
(* Binary floating point.  The program holds a coordinate of c units as    *)
(* the double nearest to c / 100000, and a length of m metres as the       *)
(* double nearest to m / 1000; where the outcome of a comparison or of a   *)
(* rounding depends on what the doubles are, the model computes them.  A   *)
(* natural number too large for an integer of the model is a sequence of   *)
(* its digits in base 10000, the lowest first.                             *)

\* 2^n
RECURSIVE Pow2(_)
Pow2(n) == IF n = 0 THEN 1 ELSE 2 * Pow2(n - 1)

\* 2^n modulo m
RECURSIVE Pow2Mod(_, _)
Pow2Mod(n, m) == IF n = 0 THEN 1 % m ELSE (2 * Pow2Mod(n - 1, m)) % m

\* the binary exponent of n / d (n, d > 0): the e with 2^e <= n/d < 2^(e+1)
RECURSIVE BinaryExponent(_, _)
BinaryExponent(n, d) ==
    IF n < d THEN BinaryExponent(2 * n, d) - 1
    ELSE IF n >= 2 * d THEN BinaryExponent(n, 2 * d) + 1
    ELSE 0

\* the digits of a natural number
RECURSIVE Big(_)
Big(n) == IF n < 10000 THEN <<n>> ELSE <<n % 10000>> \o Big(n \div 10000)

\* the value F has on v, v being computed once, before F
Of(F(_), v) == CHOOSE r \in {F(x) : x \in {v}} : TRUE

\* the value F has on v and w
Of2(F(_, _), v, w) == CHOOSE r \in {F(x, y) : x \in {v}, y \in {w}} : TRUE

\* k x + carry, for k <= 2^16
RECURSIVE BigTimes(_, _, _)
BigTimes(x, k, carry) ==
    Of2(LAMBDA a, c :
            IF a = <<>> THEN (IF c = 0 THEN <<>> ELSE Big(c))
            ELSE Of(LAMBDA t : <<t % 10000>> \o BigTimes(Tail(a), k, t \div 10000),
                    k * Head(a) + c),
        x, carry)

\* x * 2^n
RECURSIVE BigShift(_, _)
BigShift(x, n) ==
    IF n <= 16 THEN BigTimes(x, Pow2(n), 0)
    ELSE BigShift(BigTimes(x, Pow2(16), 0), n - 16)

\* the i-th digit of x
BigDigit(x, i) == IF i <= Len(x) THEN x[i] ELSE 0

\* x without its lowest digit
BigTail(x) == IF x = <<>> THEN x ELSE Tail(x)

\* x + y + carry
RECURSIVE BigAdd(_, _, _)
BigAdd(x, y, carry) ==
    Of2(LAMBDA a, b :
            IF a = <<>> /\ b = <<>> THEN (IF carry = 0 THEN <<>> ELSE <<carry>>)
            ELSE Of(LAMBDA t : <<t % 10000>>
                               \o BigAdd(BigTail(a), BigTail(b), t \div 10000),
                    BigDigit(a, 1) + BigDigit(b, 1) + carry),
        x, y)

\* x - y - borrow, for x >= y + borrow
RECURSIVE BigSub(_, _, _)
BigSub(x, y, borrow) ==
    Of2(LAMBDA a, b :
            IF a = <<>> THEN <<>>
            ELSE Of(LAMBDA t : <<(t + 10000) % 10000>>
                               \o BigSub(Tail(a), BigTail(b),
                                         IF t < 0 THEN 1 ELSE 0),
                    Head(a) - BigDigit(b, 1) - borrow),
        x, y)

\* -1, 0 or 1 as x is less than, equal to or greater than y
BigCompare(x, y) ==
    Of2(LAMBDA a, b :
            LET n == IF Len(a) > Len(b) THEN Len(a) ELSE Len(b)
                differ == {i \in 1..n : BigDigit(a, i) # BigDigit(b, i)}
            IN  IF differ = {} THEN 0
                ELSE LET top == CHOOSE i \in differ : \A j \in differ : j <= i
                     IN  IF BigDigit(a, top) < BigDigit(b, top) THEN 0 - 1
                         ELSE 1,
        x, y)

\* the quotient and the remainder of the digits 1..i of x by d (d <= 100000),
\* r being what the digits above them left
RECURSIVE BigDivMod(_, _, _, _)
BigDivMod(x, d, i, r) ==
    IF i = 0 THEN [q |-> <<>>, r |-> r]
    ELSE Of2(LAMBDA a, cur :
                 Of(LAMBDA rest : [q |-> Append(rest.q, cur \div d),
                                   r |-> rest.r],
                    BigDivMod(a, d, i - 1, cur % d)),
             x, r * 10000 + x[i])

\* the double nearest to n / d (n >= 0, d <= 100000), as [m, s]: it is
\* m / 2^s, m a number of 53 bits rounded to the nearest, a tie to the even
Double(n, d) ==
    IF n = 0 THEN [m |-> <<0>>, s |-> 0]
    ELSE Of(LAMBDA s :
                Of(LAMBDA num :
                       Of(LAMBDA dm :
                              [m |-> IF \/ 2 * dm.r > d
                                        \/ 2 * dm.r = d /\ dm.q[1] % 2 = 1
                                     THEN BigAdd(dm.q, <<1>>, 0) ELSE dm.q,
                               s |-> s],
                          BigDivMod(num, d, Len(num), 0)),
                   BigShift(Big(n), s)),
            52 - BinaryExponent(n, d))

\* the greatest of three numbers
Max3(i, j, k) == CHOOSE n \in {i, j, k} : n >= i /\ n >= j /\ n >= k

\* a - b for the doubles A of |a| and B of |b|, in units of 2^-S
DoubleDifference(a, b, A, B, S) ==
    Of2(LAMBDA x, y :
            IF (a >= 0) # (b >= 0) THEN BigAdd(x, y, 0)
            ELSE IF BigCompare(x, y) >= 0 THEN BigSub(x, y, 0)
            ELSE BigSub(y, x, 0),
        BigShift(A.m, S - A.s), BigShift(B.m, S - B.s))

\* abs(a - b) < 0.0001 on the doubles of two coordinates exactly 0.0001
\* degree apart: the difference, rounded to a double, is below the double
\* of 0.0001 when it is below the middle of that double and the one before
\* it, or is that middle and the one before is the even one
FloatBelowTolerance(a, b) ==
    Of2(LAMBDA A, B :
            Of(LAMBDA T :
                   Of(LAMBDA S :
                          Of(LAMBDA cmp : cmp < 0 \/ (cmp = 0 /\ T.m[1] % 2 = 1),
                             BigCompare(
                                 DoubleDifference(a, b, A, B, S),
                                 BigShift(BigSub(BigTimes(T.m, 2, 0), <<1>>, 0),
                                          S - T.s - 1))),
                      Max3(A.s, B.s, T.s + 1)),
               Double(Tolerance, 100000)),
        Double(Abs(a), 100000), Double(Abs(b), 100000))

\* abs(a - b) < 0.0001 for two coordinates: off the boundary the doubles
\* differ from the decimals by far less than what separates them from it
NearOnAxis(a, b) ==
    IF Abs(a - b) = Tolerance THEN FloatBelowTolerance(a, b)
    ELSE Abs(a - b) < Tolerance

\* abs(point['lon'] - lon_err) < 0.0001 and abs(point['lat'] - lat_err) < 0.0001
Near(point, c) ==
    /\ NearOnAxis(point.lon, c[1])
    /\ NearOnAxis(point.lat, c[2])

\* a mutant of Classify: an error of no recognized shape is swallowed into a
\* generic ValueError
Classify_masking(err, lookup) ==
    IF err.type # "ApiError" THEN err
    ELSE LET c == ParsedCoordinate(err.message)
             hits == IF Len(c) = 0 THEN {}
                     ELSE {i \in DOMAIN lookup : Near(lookup[i], c[1])}
         IN  IF hits # {}
             THEN Exception("ValueError",
                            lookup[CHOOSE i \in hits : \A j \in hits : i <= j].name,
                            NoMessage)
             ELSE Exception("ValueError", "", NoMessage)

\* a mutant of Classify: the point named is the last one near the coordinate
Classify_lastNear(err, lookup) ==
    IF err.type # "ApiError" THEN err
    ELSE LET c == ParsedCoordinate(err.message)
             hits == IF Len(c) = 0 THEN {}
                     ELSE {i \in DOMAIN lookup : Near(lookup[i], c[1])}
         IN  IF hits # {}
             THEN Exception("ValueError",
                            lookup[CHOOSE i \in hits : \A j \in hits : j <= i].name,
                            NoMessage)
             ELSE err

\* the except clause: what optimal_route fails with when the call raised err
Classify(err, lookup) ==
    IF err.type # "ApiError" THEN err
    ELSE LET c == ParsedCoordinate(err.message)
             hits == IF Len(c) = 0 THEN {}
                     ELSE {i \in DOMAIN lookup : Near(lookup[i], c[1])}
         IN  IF hits # {}
             THEN Exception("ValueError",
                            lookup[CHOOSE i \in hits : \A j \in hits : i <= j].name,
                            NoMessage)
             ELSE err


-----------------------------------------------------------------------------
(* Lines 91-103: the rank of each job step *)

\* A step of the optimization response:
\*   [type |-> "start" | "job" | "end", job |-> <<id>> (<<>> when the step
\*    has no 'job'), location |-> <<lon, lat>>, distance |-> metres].
\* A nullable number (a float column that may hold NaN) is <<>> or <<v>>.

\* the rows of a DataFrame built from a list: the index is the 0-based position
WithIndex(rows) ==
    [i \in DOMAIN rows |-> [index |-> i - 1, row |-> rows[i]]]

\* the sequence s without its i-th element
Remove(s, i) == SubSeq(s, 1, i - 1) \o SubSeq(s, i + 1, Len(s))

\* sort_values by an integer key, ascending: the orders it may leave the
\* rows in.  It is called with its default kind, 'quicksort', for which
\* pandas and numpy promise no order among rows of equal key: where they
\* land depends on the numpy build (its insertion sort of short arrays keeps
\* them in place, its vectorised sorts do not).  'pairs' is a sequence of
\* [key, item].
RECURSIVE SortValues(_)
SortValues(pairs) ==
    IF pairs = <<>> THEN {<<>>}
    ELSE LET least == {i \in DOMAIN pairs :
                         \A j \in DOMAIN pairs : pairs[i].key <= pairs[j].key}
         IN  UNION {{<<pairs[i].item>> \o rest :
                        rest \in SortValues(Remove(pairs, i))} : i \in least}

\* sort_values(by='distance'): every row keeps its index label
SortsByDistance(frame) ==
    SortValues([i \in DOMAIN frame |->
                  [key |-> frame[i].row.distance, item |-> frame[i]]])

HasJob(step) == Len(step.job) > 0

\* job_sequence after lines 93-100: the job steps sorted by distance, 'rank'
\* being the index label each row had before the sort, plus one
JobSequences(step_list) ==
    {[p \in DOMAIN sorted |->
        [rank |-> sorted[p].index + 1,
         job |-> sorted[p].row.job[1],
         distance |-> sorted[p].row.distance,
         location |-> sorted[p].row.location]] :
     sorted \in SortsByDistance(WithIndex(SelectSeq(step_list, HasJob)))}

-----------------------------------------------------------------------------
(* Lines 113 and 204: to_crs(estimate_utm_crs()).  The points of the model *)
(* lie between longitude 0 and 0.02 degree east and between latitude 0 and *)
(* 0.01 degree north, for which the estimate is UTM zone 31 (central       *)
(* meridian 3 degrees east; a table whose points all lie on longitude 0    *)
(* may be given zone 30, which is the mirror image).  There the transverse *)
(* Mercator projection of the WGS 84 ellipsoid, scaled by 0.9996, is the   *)
(* series below in the longitude u and the latitude v, both in 1e-5        *)
(* degree, to a hundredth of a nanometre.  A length is kept in             *)
(* micrometres: the micrometre nearest to the double of the program.       *)

\* the value of a number of few digits
RECURSIVE BigValue(_)
BigValue(x) ==
    Of(LAMBDA a : IF a = <<>> THEN 0 ELSE Head(a) + 10000 * BigValue(Tail(a)), x)

\* x * y
RECURSIVE BigMul(_, _)
BigMul(x, y) ==
    Of2(LAMBDA a, b :
            IF b = <<>> THEN <<>>
            ELSE BigAdd(BigTimes(a, Head(b), 0), <<0>> \o BigMul(a, Tail(b)), 0),
        x, y)

\* x \div d, for d <= 100000
BigDiv(x, d) == Of(LAMBDA a : BigDivMod(a, d, Len(a), 0).q, x)

\* the smaller of x and y
BigMin(x, y) == IF BigCompare(x, y) <= 0 THEN x ELSE y

\* the integer part of the square root of n is in in[1]..in[2]: the half of
\* in[1]..in[2] it is in
Halved(n, in) ==
    Of(LAMBDA i :
           Of(LAMBDA mid : IF BigCompare(BigMul(mid, mid), n) <= 0
                           THEN <<mid, i[2]>>
                           ELSE <<i[1], BigSub(mid, <<1>>, 0)>>,
              BigAdd(i[1],
                     BigDiv(BigAdd(BigSub(i[2], i[1], 0), <<1>>, 0), 2), 0)),
       in)

\* in[1]..in[2] halved four times
Narrowed(n, in) == Halved(n, Halved(n, Halved(n, Halved(n, in))))

\* the integer part of the square root of n, which is in within[1]..within[2]
RECURSIVE BigSqrt(_, _)
BigSqrt(n, within) ==
    Of(LAMBDA in : IF BigCompare(in[1], in[2]) >= 0 THEN in[1]
                   ELSE BigSqrt(n, Narrowed(n, in)),
       within)

\* the easting, in micrometres, of u units of longitude at longitude 0,
\* for points a few units apart
Easting(u) == BigAdd(BigTimes(Big(1114287), u, 0), Big((15 * u) \div 1000), 0)

\* the northing, in micrometres, of v units of latitude at longitude 0,
\* for points a few units apart
Northing(v) == BigAdd(BigTimes(Big(1106827), v, 0), Big((560 * v) \div 1000), 0)

\* the number whose parts of four decimal digits are 'parts', the highest
\* part first
BigFrom(parts) == [i \in DOMAIN parts |-> parts[Len(parts) + 1 - i]]

\* the easting of the point <<u, v>> from the easting of <<0, 0>>: the
\* coefficients of its series in u and v, in 1e-24 m; those of uu, uuuu, uvv
\* and vvvv are taken off
EastingSeries ==
    [u    |-> BigFrom(<<1, 1142, 8702, 607, 4464, 2224, 3587>>),
     uu   |-> BigFrom(<<5130, 5672, 4039, 5091>>),
     uuu  |-> BigFrom(<<57, 2702, 3687>>),
     uuuu |-> BigFrom(<<66>>),
     vv   |-> BigFrom(<<5062, 1052, 3200, 2778>>),
     uvv  |-> BigFrom(<<169, 5180, 7788>>),
     uuvv |-> BigFrom(<<392>>),
     vvvv |-> BigFrom(<<12>>)]

\* the northing of the point <<u, v>> from the northing of <<0, 0>>; the
\* coefficients of uv and uuuv are taken off
NorthingSeries ==
    [v    |-> BigFrom(<<1, 1068, 2755, 9873, 4177, 4757, 5956>>),
     uv   |-> BigFrom(<<1, 192, 4425, 4744, 5843>>),
     uuv  |-> BigFrom(<<170, 6605, 4442>>),
     uuuv |-> BigFrom(<<263>>),
     vvv  |-> BigFrom(<<8177, 6281>>),
     uvvv |-> BigFrom(<<207>>)]

\* x in nanometres (the nearest), x being in 1e-24 m
Nanometres(x) ==
    BigDiv(BigDiv(BigDiv(BigDiv(BigAdd(x, BigFrom(<<500, 0, 0, 0>>), 0),
                                10000), 10000), 10000), 1000)

\* - c.uu u^2 + c.uuu u^3 - c.uuuu u^4 is added to x u
Along(c, x, u) ==
    BigTimes(BigSub(x,
                    BigTimes(BigSub(c.uu,
                                    BigTimes(BigSub(c.uuu,
                                                    BigTimes(c.uuuu, u, 0), 0),
                                             u, 0), 0),
                             u, 0), 0),
             u, 0)

\* to_crs: the point in the projection, from the projection of <<0, 0>>, in
\* nanometres
Projected(point) ==
    Of2(LAMBDA u, v :
            <<Nanometres(
                  BigAdd(Along(EastingSeries, EastingSeries.u, u),
                         BigTimes(BigTimes(
                             BigSub(BigSub(EastingSeries.vv,
                                           BigTimes(BigSub(EastingSeries.uvv,
                                                           BigTimes(EastingSeries.uuvv, u, 0),
                                                           0),
                                                    u, 0), 0),
                                    BigTimes(BigTimes(EastingSeries.vvvv, v, 0),
                                             v, 0), 0),
                             v, 0), v, 0),
                         0)),
              Nanometres(
                  BigTimes(
                      BigAdd(BigSub(NorthingSeries.v,
                                    BigTimes(BigSub(NorthingSeries.uv,
                                                    BigTimes(BigSub(NorthingSeries.uuv,
                                                                    BigTimes(NorthingSeries.uuuv, u, 0),
                                                                    0),
                                                             u, 0), 0),
                                             u, 0), 0),
                             BigTimes(BigTimes(BigAdd(NorthingSeries.vvv,
                                                      BigTimes(NorthingSeries.uvvv, u, 0),
                                                      0),
                                               v, 0), v, 0),
                             0),
                      v, 0))>>,
        point[1], point[2])

\* the difference of x and y
BigDistance(x, y) ==
    Of2(LAMBDA a, b : IF BigCompare(a, b) >= 0 THEN BigSub(a, b, 0)
                      ELSE BigSub(b, a, 0),
        x, y)

\* x in micrometres (the nearest), x being in nanometres
Micrometres(x) == BigDiv(BigAdd(x, <<500>>, 0), 1000)

\* the square root of x^2 + y^2 in micrometres (the nearest), x and y being
\* in nanometres
Hypotenuse(x, y) ==
    Of2(LAMBDA a, b :
            IF BigCompare(b, <<>>) = 0 THEN Micrometres(a)
            ELSE IF BigCompare(a, <<>>) = 0 THEN Micrometres(b)
            ELSE Of(LAMBDA n :
                   Of(LAMBDA m :
                          Of(LAMBDA above :
                                 IF BigCompare(n, BigMul(above, above)) >= 0
                                 THEN BigAdd(m, <<1>>, 0)
                                 ELSE m,
                             BigAdd(BigTimes(m, 1000, 0), <<500>>, 0)),
                      BigSqrt(BigDiv(BigDiv(n, 10000), 100),
                              <<BigDiv(IF BigCompare(a, b) >= 0 THEN a ELSE b,
                                       1000),
                                BigAdd(BigDiv(BigAdd(a, b, 0), 1000),
                                       <<1>>, 0)>>)),
               BigAdd(BigMul(a, a), BigMul(b, b), 0)),
        x, y)

\* geometry.length (line 205) of the line from p to q in the projection, in
\* micrometres
ProjectedLength(p, q) ==
    Of2(LAMBDA a, b : Hypotenuse(BigDistance(a[1], b[1]),
                                 BigDistance(a[2], b[2])),
        Projected(p), Projected(q))

\* the lengths, in nanometres, of a unit of longitude and of a unit of
\* latitude in the projection at <<0, 0>>
UnitEast == Nanometres(EastingSeries.u)
UnitNorth == Nanometres(NorthingSeries.v)
UnitLengths == <<UnitEast, UnitNorth>>

\* x \div d, for a quotient below 10^(p + 1)
RECURSIVE BigQuotient(_, _, _)
BigQuotient(x, d, p) ==
    IF p < 0 THEN 0
    ELSE Of2(LAMBDA a, step :
                 Of(LAMBDA k :
                        k * (10 ^ p)
                            + BigQuotient(BigSub(a, BigTimes(step, k, 0), 0),
                                          d, p - 1),
                    CHOOSE k \in 0..9 :
                        /\ BigCompare(BigTimes(step, k, 0), a) <= 0
                        /\ \/ k = 9
                           \/ BigCompare(BigTimes(step, k + 1, 0), a) > 0),
             x, BigTimes(d, 10 ^ p, 0))

\* how far a coordinate is to move for the projection to go from 'from' to
\* 'to', in parts of a unit ('parts' to the unit, 'per' being the length of
\* the unit): the nearest whole number, negative when 'to' is below 'from'
Shift(from, to, per, parts) ==
    Of(LAMBDA n : IF BigCompare(to, from) >= 0 THEN n ELSE 0 - n,
       BigQuotient(BigAdd(BigTimes(BigDistance(from, to), parts, 0),
                          BigDiv(per, 2), 0),
                   per, 4))

\* the point of whole units whose projection is nearest to xy, with its
\* projection: from 'guess', the point is moved by what the projection is
\* off, until it is off by less than half a unit
RECURSIVE Inverted(_, _)
Inverted(xy, guess) ==
    Of(LAMBDA at :
           Of(LAMBDA d :
                  IF d = <<0, 0>> THEN <<guess, at>>
                  ELSE Inverted(xy, <<guess[1] + d[1], guess[2] + d[2]>>),
              [c \in 1..2 |-> Shift(at[c], xy[c], UnitLengths[c], 1)]),
       Projected(guess))

\* to_crs('EPSG:4326') (line 209): the longitude and the latitude, in
\* nanodegrees (a unit is 10000 of them), of the place xy of the
\* projection.  The program computes them in doubles, to a few parts in
\* 10^15 of a degree; the model keeps the nearest nanodegree.
Unprojected(xy) ==
    Of(LAMBDA near :
           [c \in 1..2 |->
               10000 * near[1][c]
                   + Shift(near[2][c], xy[c], UnitLengths[c], 10000)],
       Inverted(xy, <<0, 0>>))

\* a point of the response after lines 204 and 209: projected, and brought
\* back to degrees
Reprojected(point) == Unprojected(Projected(point))

-----------------------------------------------------------------------------
(* Lines 105-122: the spatial join of the destinations with the ranks *)

\* a destination point intersects the 10 m buffer drawn, in UTM, around a
\* job location: it is in the bounding box of the buffer (the query of the
\* spatial index; a unit is more than a metre on either axis) and within
\* the radius of its centre, in millimetres.  The buffer is a polygon of
\* 64 sides inscribed in the circle; no point a whole number of units from
\* the centre lies between the two
Intersects(point, center) ==
    Of2(LAMBDA u, v :
            /\ u <= BufferRadius
            /\ v <= BufferRadius
            /\ Of2(LAMBDA dx, dy :
                       dx * dx + dy * dy
                           <= (1000 * BufferRadius) * (1000 * BufferRadius),
                   BigValue(BigDiv(Easting(u), 1000)),
                   BigValue(BigDiv(Northing(v), 1000))),
        Abs(point[1] - center[1]), Abs(point[2] - center[2]))

RECURSIVE Flatten(_)
Flatten(seqs) ==
    IF seqs = <<>> THEN <<>> ELSE Head(seqs) \o Flatten(Tail(seqs))

\* a mutant of JoinedRows: a left row that intersects no buffer is dropped
JoinedRows_inner(frame, i, seq) ==
    LET hits == SelectSeq([j \in DOMAIN seq |-> j],
                          LAMBDA j : Intersects(frame.geometry[i], seq[j].location))
        left == [index |-> i - 1, cells |-> frame.rows[i],
                 geometry |-> frame.geometry[i]]
    IN  [m \in DOMAIN hits |->
            [left |-> left,
             rank |-> <<seq[hits[m]].rank>>,
             distance |-> <<seq[hits[m]].distance>>]]

\* the rows gpd.sjoin(..., how="left", predicate="intersects") gives for left
\* row i: one per intersecting buffer, in the order of job_sequence, or one
\* row of missing values
JoinedRows(frame, i, seq) ==
    LET hits == SelectSeq([j \in DOMAIN seq |-> j],
                          LAMBDA j : Intersects(frame.geometry[i], seq[j].location))
        left == [index |-> i - 1, cells |-> frame.rows[i],
                 geometry |-> frame.geometry[i]]
    IN  IF hits = <<>>
        THEN <<[left |-> left, rank |-> <<>>, distance |-> <<>>]>>
        ELSE [m \in DOMAIN hits |->
                [left |-> left,
                 rank |-> <<seq[hits[m]].rank>>,
                 distance |-> <<seq[hits[m]].distance>>]]

\* gpd.sjoin(destinations, gdf, how="left", predicate="intersects")
SJoin(frame, seq) ==
    Flatten([i \in DOMAIN frame.rows |-> JoinedRows(frame, i, seq)])

\* the decimal digits of a natural number
RECURSIVE Digits(_)
Digits(n) ==
    LET d == <<"0", "1", "2", "3", "4", "5", "6", "7", "8", "9">>
    IN  IF n < 10 THEN <<d[n + 1]>>
        ELSE Digits(n \div 10) \o <<d[(n % 10) + 1]>>

\* rank.astype(str): the column is of integers when every row has a rank,
\* and of floats (with NaN) when some row has none
RankText(rank, float) ==
    IF rank = <<>> THEN <<"nan">>
    ELSE IF float THEN Digits(rank[1]) \o <<".", "0">>
    ELSE Digits(rank[1])

\* sort_values(by='rank'): ascending, the rows of no rank last and in their
\* former order
SortsByRank(rows) ==
    LET ranked == SelectSeq(rows, LAMBDA r : r.rank # <<>>)
        others == SelectSeq(rows, LAMBDA r : r.rank = <<>>)
    IN  {a \o others :
            a \in SortValues([i \in DOMAIN ranked |->
                                [key |-> ranked[i].rank[1],
                                 item |-> ranked[i]]])}

\* destinations after lines 117-122 (the identifier column exists): the
\* joined rows in rank order under the columns name, identifier, distance,
\* geometry; 'index' is the index label, that of the input row
OrderedDestinations(frame, seq, id_field) ==
    LET joined == SJoin(frame, seq)
        float == \E k \in DOMAIN joined : joined[k].rank = <<>>
    IN  {[k \in DOMAIN sorted |->
            [index |-> sorted[k].left.index,
             name |-> <<"Destination ">> \o RankText(sorted[k].rank, float),
             id |-> sorted[k].left.cells[IndexOf(frame.columns, id_field)],
             distance |-> sorted[k].distance,
             geometry |-> sorted[k].left.geometry]] :
         sorted \in SortsByRank(joined)}

-----------------------------------------------------------------------------
(* Lines 124-148: the ordered locations and the route segments *)

\* a mutant of LocationName: the label counts the steps from 1
LocationName_fromOne(type, rank) ==
    IF type = "job" THEN <<"destination ">> \o Digits(rank + 1)
    ELSE IF type = "start" THEN <<"home_base">>
    ELSE <<"final_stop">>

\* the name of a row of locations (lines 130-133): 'rank' is the index label
\* the step had in the step list
LocationName(type, rank) ==
    IF type = "job" THEN <<"destination ">> \o Digits(rank)
    ELSE IF type = "start" THEN <<"home_base">>
    ELSE <<"final_stop">>

\* locations after lines 124-133, in ascending distance order
Locations(step_list) ==
    {[p \in DOMAIN sorted |->
        [name |-> LocationName(sorted[p].row.type, sorted[p].index),
         location |-> sorted[p].row.location,
         lon |-> sorted[p].row.location[1],
         lat |-> sorted[p].row.location[2],
         distance |-> sorted[p].row.distance]] :
     sorted \in SortsByDistance(WithIndex(step_list))}

\* ordered_coords = locations['location'].tolist()
OrderedCoords(locs) == [p \in DOMAIN locs |-> locs[p].location]

\* a mutant of Round2: the value is truncated
Round2_truncated(metres) == metres \div 10

\* rint((metres / 1000) * 100) for a length midway between two hundredths
\* (metres = 10 k + 5), as binary floating point computes it.  The double
\* x nearest to metres / 1000 has 53 bits: with s = 52 - ex, ex the exponent
\* of metres / 1000, it is metres * 2^s / 1000 rounded to the nearest
\* integer, r being what the division leaves.  Ten times the distance of
\* 100 x from k + 0.5, in units of 2^-s, is d10; the doubles around
\* k + 0.5 are u units apart, and 100 x is rounded to k + 0.5 itself unless
\* it lies more than half of u away.
MidwayRound(metres) ==
    LET k   == metres \div 10
        ex  == BinaryExponent(metres, 1000)
        s   == 52 - ex
        r   == ((metres % 1000) * Pow2Mod(s, 1000)) % 1000
        d10 == IF r < 500 THEN 0 - r ELSE 1000 - r
        ey  == BinaryExponent(2 * k + 1, 2)
        u   == IF d10 < 0 /\ k = 0 THEN Pow2(ey - ex - 1) ELSE Pow2(ey - ex)
    IN  IF 2 * Abs(d10) > 10 * u
        THEN (IF d10 < 0 THEN k ELSE k + 1)
        ELSE (IF k % 2 = 0 THEN k ELSE k + 1)

\* (metres / 1000).round(2), in hundredths of a kilometre: numpy multiplies
\* the double by 100, takes rint (a tie to the even one) and divides by 100
Round2(metres) ==
    LET q == metres \div 10
        r == metres % 10
    IN  IF r < 5 THEN q
        ELSE IF r > 5 THEN q + 1
        ELSE MidwayRound(metres)

\* the frame of lines 137-147: each row of locations paired with the row
\* before it; the first row has no row before it (its shifted cells and its
\* difference are NaN, its shifted name is the fill value 'home_base')
PairedRows(locs) ==
    [p \in DOMAIN locs |->
        [segment_name |->
            (IF p = 1 THEN <<"home_base">> ELSE locs[p - 1].name)
            \o <<" to ">> \o locs[p].name,
         origin |-> IF p = 1 THEN <<>> ELSE locs[p - 1].location,
         end |-> locs[p].location,
         distance |-> IF p = 1 THEN <<>>
                      ELSE <<Round2(locs[p].distance - locs[p - 1].distance)>>]]

\* route_segments after line 148: iloc[1:]
RouteSegments(locs) == Tail(PairedRows(locs))

-----------------------------------------------------------------------------
(* Lines 150-159: the names of the destinations in the segment names *)

LowerText(text) == [i \in DOMAIN text |-> Lower(text[i])]

\* dict insertion: a key already present keeps its place and takes the value
RECURSIVE ToDict(_, _)
ToDict(pairs, dict) ==
    IF pairs = <<>> THEN dict
    ELSE LET kv == Head(pairs)
             at == {i \in DOMAIN dict : dict[i].key = kv.key}
         IN  ToDict(Tail(pairs),
                    IF at = {} THEN Append(dict, kv)
                    ELSE [i \in DOMAIN dict |->
                            IF i \in at THEN kv ELSE dict[i]])

\* dest_names after lines 150-152: lower-cased name -> identifier, in the
\* order of the ordered destinations
DestNames(dests) ==
    ToDict([k \in DOMAIN dests |->
               [key |-> LowerText(dests[k].name), value |-> dests[k].id]],
           <<>>)

\* str.replace(key, value): every occurrence of key, from the left
RECURSIVE Replace(_, _, _)
Replace(text, key, value) ==
    IF Len(text) < Len(key) THEN text
    ELSE IF SubSeq(text, 1, Len(key)) = key
    THEN <<value>> \o Replace(SubSeq(text, Len(key) + 1, Len(text)), key, value)
    ELSE <<Head(text)>> \o Replace(Tail(text), key, value)

\* replace_names(text, name_list): one str.replace per item, in dict order
RECURSIVE replace_names(_, _)
replace_names(text, name_list) ==
    IF name_list = <<>> THEN text
    ELSE replace_names(Replace(text, Head(name_list).key, Head(name_list).value),
                       Tail(name_list))

\* route_segments after line 159
NamedSegments(segments, name_list) ==
    [i \in DOMAIN segments |->
        [segments[i] EXCEPT !.segment_name = replace_names(@, name_list)]]


-----------------------------------------------------------------------------
(* The optimization service *)

Step(type, job, location, distance) ==
    [type |-> type, job |-> job, location |-> location, distance |-> distance]

Orderings(S) ==
    {f \in [1..Cardinality(S) -> S] : \A i, j \in DOMAIN f : f[i] = f[j] => i = j}

RECURSIVE Sum(_, _)
\* legs[1] + ... + legs[k]
Sum(legs, k) == IF k = 0 THEN 0 ELSE Sum(legs, k - 1) + legs[k]

\* the steps of a route that leaves the vehicle's start, visits the jobs in
\* the order 'order' (job ids) and reaches the vehicle's end, legs[k] metres
\* being driven to reach the k-th stop; each step carries the location the
\* request gave and the distance driven so far.  'in_visit_order' tells
\* whether the array lists the job steps as visited, or by job id
RouteSteps(veh, job_list, order, legs, in_visit_order) ==
    LET n == Len(job_list)
        at(k) == IF in_visit_order THEN order[k] ELSE k
        seen(j) == CHOOSE k \in 1..n : order[k] = j
    IN  <<Step("start", <<>>, veh.start, 0)>>
        \o [k \in 1..n |->
              Step("job", <<job_list[at(k)].id>>, job_list[at(k)].location,
                   Sum(legs, seen(at(k))))]
        \o <<Step("end", <<>>, veh.end, Sum(legs, n + 1))>>

\* the coordinates an error message of the service may name
ErrorCoordinates == {<<0, 0>>, <<15, 300>>}

Messages ==
    {[routable |-> r, unfound |-> u, coordinate |-> c, location |-> l] :
        r \in BOOLEAN, u \in BOOLEAN,
        c \in {<<>>} \cup {<<x>> : x \in ErrorCoordinates},
        l \in {<<>>, <<(<<0, 0>>)>>}}

\* what ors_client.optimization may raise
ServiceErrors == {ApiError(m) : m \in Messages} \cup {Timeout}

\* the leg lengths of the responses of the pipeline model
PipelineLegs == {5004}

\* what ors_client.optimization may return for the request
Responses(veh, job_list) ==
    {RouteSteps(veh, job_list, order, legs, v) :
        order \in Orderings(1..Len(job_list)),
        legs \in [1..(Len(job_list) + 1) -> PipelineLegs],
        v \in BOOLEAN}

\* a mutant of AfterServiceError: the request is sent again
AfterServiceError_retry(at) == at

\* a mutant of AfterServiceError: an error of the optimization call is
\* swallowed and the pipeline goes on to the directions call
AfterServiceError_goesOn(at) == IF at = "built" THEN "sequenced" ELSE "failed"

\* where optimal_route is once a service call has raised: the exception
\* leaves the function, 'at' being where the call was made
AfterServiceError(at) == "failed"

CallOptimization ==
    /\ pc = "built"
    /\ UNCHANGED app_vars
    /\ opt_requests' = opt_requests + 1
    /\ ors_client' = Called(ors_client, OptimizationRequest(jobs, vehicle))
    /\ \/ \E err \in ServiceErrors :
            /\ e' = err
            /\ raised' = Classify(err, all_points_for_lookup)
            /\ pc' = AfterServiceError("built")
            /\ UNCHANGED steps
       \/ \E r \in Responses(vehicle, jobs) :
            /\ steps' = r
            /\ pc' = "optimized"
            /\ UNCHANGED <<e, raised>>
    /\ UNCHANGED <<input_source, input_final_stop, input_destinations,
                   input_dest_id_field, source, final_stop, destinations,
                   vehicle, jobs, all_points_for_lookup, job_sequence,
                   locations, ordered_coords, route_segments, dest_names,
                   later_vars, peer>>

-----------------------------------------------------------------------------
(* Lines 91-159 in the pipeline *)

\* the columns of the joined frame at line 122
JoinedColumns(frame) ==
    frame.columns \o <<"geometry", "index_right", "rank", "job", "distance", "name">>

VisitSequencer ==
    /\ pc = "optimized"
    /\ UNCHANGED app_vars
    /\ IF SelectSeq(steps, HasJob) = <<>>
       THEN \* line 98: a frame built from no rows has no 'distance' column
            /\ raised' = Exception("KeyError", "distance", NoMessage)
            /\ pc' = "failed"
            /\ UNCHANGED <<destinations, job_sequence, locations,
                           ordered_coords, route_segments, dest_names>>
       ELSE IF ~HasColumn(JoinedColumns(destinations), input_dest_id_field)
       THEN \* line 122: the identifier field is no column of the frame
            /\ raised' = Exception("KeyError", input_dest_id_field, NoMessage)
            /\ pc' = "failed"
            /\ UNCHANGED <<destinations, job_sequence, locations,
                           ordered_coords, route_segments, dest_names>>
       ELSE \E seq \in JobSequences(steps), locs \in Locations(steps) :
            \E dests \in OrderedDestinations(destinations, seq,
                                             input_dest_id_field) :
                /\ job_sequence' = seq
                /\ destinations' = dests
                /\ locations' = locs
                /\ ordered_coords' = OrderedCoords(locs)
                /\ dest_names' = DestNames(dests)
                /\ route_segments' =
                       NamedSegments(RouteSegments(locs), DestNames(dests))
                /\ pc' = "sequenced"
                /\ UNCHANGED raised
    /\ UNCHANGED <<input_source, input_final_stop, input_destinations,
                   input_dest_id_field, source, final_stop, vehicle, jobs,
                   all_points_for_lookup, e, steps, opt_requests, later_vars,
                   peer, ors_client>>

-----------------------------------------------------------------------------
(* Lines 161-170: the directions call.  A response of the directions       *)
(* service is [coordinates |-> the path, extras |-> <<>> when the response *)
(* carries no surface extras, else <<[values, summary]>>], 'values' being  *)
(* the ranges <<start, end, code>> and 'summary' the codes it totals.      *)

DirectionsResponse(coords, extras) == [coordinates |-> coords, extras |-> extras]

SurfaceExtras(values, summary) == <<[values |-> values, summary |-> summary]>>

\* the codes of the ranges, each once, in the order of their first range
RECURSIVE SummaryOf(_)
SummaryOf(values) ==
    IF values = <<>> THEN <<>>
    ELSE LET front == SummaryOf(SubSeq(values, 1, Len(values) - 1))
             code == values[Len(values)][3]
         IN  IF \E k \in DOMAIN front : front[k] = code THEN front
             ELSE Append(front, code)

\* the request of lines 161-166
DirectionsRequest(coords) ==
    [coordinates |-> coords,
     profile |-> "driving-car",
     extra_info |-> <<"surface">>,
     format |-> "geojson"]

\* what ors_client.directions may raise: an ApiError whose text has none of
\* the two shapes, one whose text names a coordinate as unroutable, or
\* another exception
DirectionsErrors ==
    {ApiError([routable |-> FALSE, unfound |-> FALSE,
               coordinate |-> <<>>, location |-> <<>>]),
     ApiError([routable |-> TRUE, unfound |-> FALSE,
               coordinate |-> <<(<<0, 0>>)>>, location |-> <<>>]),
     Timeout}

\* a mutant of DirectionsFailure: the except clause of the optimization call
\* covers the directions call too
DirectionsFailure_classified(err, lookup) == Classify(err, lookup)

\* what optimal_route fails with when ors_client.directions raised err: the
\* call of line 161 is in no try block, so err itself leaves the function
DirectionsFailure(err, lookup) == err

\* the surface code of the responses of the pipeline model: Asphalt
PipelineSurface == 3

\* what ors_client.directions may return for the coordinates, in the
\* pipeline model: the path runs straight from stop to stop, on one surface
\* or with no surface extras
PipelineDirections(coords) ==
    LET values == <<(<<0, Len(coords) - 1, PipelineSurface>>)>>
    IN  {DirectionsResponse(coords, SurfaceExtras(values, SummaryOf(values))),
         DirectionsResponse(coords, <<>>)}

CallDirections ==
    /\ pc = "sequenced"
    /\ UNCHANGED app_vars
    /\ dir_requests' = dir_requests + 1
    /\ dir_request' = DirectionsRequest(ordered_coords)
    /\ ors_client' = Called(ors_client, DirectionsRequest(ordered_coords))
    /\ \/ \E err \in DirectionsErrors :
            /\ raised' = DirectionsFailure(err, all_points_for_lookup)
            /\ pc' = AfterServiceError("sequenced")
            /\ UNCHANGED directions
       \/ \E r \in PipelineDirections(ordered_coords) :
            /\ directions' = r
            /\ pc' = "directed"
            /\ UNCHANGED raised
    /\ UNCHANGED <<input_source, input_final_stop, input_destinations,
                   input_dest_id_field, source, final_stop, destinations,
                   vehicle, jobs, all_points_for_lookup, e, steps,
                   job_sequence, locations, ordered_coords, route_segments,
                   dest_names, opt_requests, gdf, route_detailed, result,
                   surface_stats, table_html, peer>>

-----------------------------------------------------------------------------
(* Lines 172-215: the surface segmenter.  A path segment is                *)
(* [geometry |-> <<from, to>>, surface |-> label, segment_length |-> um].  *)

\* a mutant of SplitLine: every segment starts at the first coordinate
SplitLine_fan(coords) ==
    [i \in 1..(Len(coords) - 1) |-> <<coords[1], coords[i + 1]>>]

\* split_line: one 2-point line per pair of consecutive coordinates
SplitLine(coords) ==
    [i \in 1..(Len(coords) - 1) |-> <<coords[i], coords[i + 1]>>]

\* a mutant of AssignSurface: a range stops short of its end index
RECURSIVE AssignSurface_halfOpen(_, _)
AssignSurface_halfOpen(n, details) ==
    IF details = <<>> THEN [i \in 1..n |-> <<>>]
    ELSE LET before == AssignSurface_halfOpen(n, SubSeq(details, 1, Len(details) - 1))
             range == details[Len(details)]
         IN  [i \in 1..n |->
                IF range[1] <= i - 1 /\ i - 1 < range[2] THEN <<range[3]>>
                ELSE before[i]]

\* lines 188-190: the column starts as None (<<>>); each range, in the order
\* of the list, writes its code on the rows labelled start..end, both
\* included (gdf.loc[start:end]); rows are labelled from 0
RECURSIVE AssignSurface(_, _)
AssignSurface(n, details) ==
    IF details = <<>> THEN [i \in 1..n |-> <<>>]
    ELSE LET before == AssignSurface(n, SubSeq(details, 1, Len(details) - 1))
             range == details[Len(details)]
         IN  [i \in 1..n |->
                IF range[1] <= i - 1 /\ i - 1 <= range[2] THEN <<range[3]>>
                ELSE before[i]]

\* the dictionary of lines 196-201
surface_codes ==
    <<(<<0, "Unknown">>), (<<1, "Paved">>), (<<2, "Unpaved">>),
      (<<3, "Asphalt">>), (<<4, "Concrete">>), (<<6, "Metal">>),
      (<<7, "Wood">>), (<<8, "Compacted Gravel">>), (<<10, "Gravel">>),
      (<<11, "Dirt">>), (<<12, "Ground">>), (<<13, "Ice">>),
      (<<14, "Paving Stones">>), (<<15, "Sand">>), (<<17, "Grass">>),
      (<<18, "Grass Paver">>)>>

\* a mutant of SurfaceLabel: a code the dictionary lacks is labelled 'Paved'
SurfaceLabel_paved(x) ==
    IF x # <<>> /\ \E k \in DOMAIN surface_codes : surface_codes[k][1] = x[1]
    THEN surface_codes[CHOOSE k \in DOMAIN surface_codes :
                           surface_codes[k][1] = x[1]][2]
    ELSE "Paved"

\* surface_codes.get(x, "Unknown"), x being None (<<>>) or a code (<<c>>)
SurfaceLabel(x) ==
    IF x # <<>> /\ \E k \in DOMAIN surface_codes : surface_codes[k][1] = x[1]
    THEN surface_codes[CHOOSE k \in DOMAIN surface_codes :
                           surface_codes[k][1] = x[1]][2]
    ELSE "Unknown"

\* line 205: geometry.length in the UTM projection, in micrometres
SegmentLength(line) == BigValue(ProjectedLength(line[1], line[2]))

\* the points of the input tables of the pipeline model: of the destinations,
\* of the source and of the final stop
PointSet == {<<0, 0>>, <<5, 5>>, <<5, 300>>}

SourcePoints == {<<0, 0>>, <<5, 300>>}

FinalStopPoints == {<<0, 0>>, <<10, 0>>}

\* the places of the source and of the final stop of a route of the visit
\* sequencer
VisitStart == <<0, 0>>
VisitEnd == <<0, 1000>>

\* the place of the j-th destination of a table of places far apart: no two
\* are near each other, and no line between two of them, the source and the
\* final stop is longer than 2 km
FarPoint(j) == <<500 * j, 0>>

\* the lines between two of the points of the pipeline model, those between
\* two of the first places far apart, and the segments of the paths eastwards
\* from <<0, 0>> whose segments are 9 units long, or the i-th i times as long
KnownLines ==
    LET points == PointSet \cup SourcePoints \cup FinalStopPoints
        stops  == {VisitStart, VisitEnd, FarPoint(1), FarPoint(2)}
    IN  (points \X points)
        \cup (stops \X stops)
        \cup {<<<<9 * (i - 1), 0>>, <<9 * i, 0>>>> : i \in 1..20}
        \cup {<<<<9 * (((i - 1) * i) \div 2), 0>>,
                <<9 * ((i * (i + 1)) \div 2), 0>>>> : i \in 1..18}

\* the lengths of these lines, each computed once
SegmentLengths == {<<line, SegmentLength(line)>> : line \in KnownLines}

\* SegmentLength(line), read from SegmentLengths when the line is there
LengthOfLine(line) ==
    Of(LAMBDA l : IF \E known \in SegmentLengths : known[1] = l
                  THEN (CHOOSE known \in SegmentLengths : known[1] = l)[2]
                  ELSE SegmentLength(l),
       line)

\* the end points of these lines
KnownPoints == {line[1] : line \in KnownLines}
                   \cup {line[2] : line \in KnownLines}

\* these points as lines 204 and 209 leave them, each computed once
ReprojectedPoints == {<<p, Reprojected(p)>> : p \in KnownPoints}

\* Reprojected(point), read from ReprojectedPoints when the point is there
ReprojectedPoint(point) ==
    Of2(LAMBDA p, found : IF found # {} THEN (CHOOSE known \in found : TRUE)[2]
                          ELSE Reprojected(p),
        point, {known \in ReprojectedPoints : known[1] = point})

\* add_road_surface_id (lines 172-192): a row per segment of the path, with
\* the code of its range, or None
AddRoadSurfaceId(coords, details) ==
    LET lines == SplitLine(coords)
        codes == AssignSurface(Len(lines), details)
    IN  [i \in DOMAIN lines |-> [geometry |-> lines[i], surface |-> codes[i]]]

\* route_detailed at line 209: the label of each row (line 202), its
\* length in the projection (lines 204-205), and its geometry brought back
\* to degrees (line 209), in nanodegrees
RouteDetailed(segments) ==
    [i \in DOMAIN segments |->
        [geometry |-> [k \in 1..2 |->
                          ReprojectedPoint(segments[i].geometry[k])],
         surface |-> SurfaceLabel(segments[i].surface),
         segment_length |-> LengthOfLine(segments[i].geometry)]]

\* a mutant of Returned: what was computed is handed back even on an error
Returned_partial(error, outputs) == <<outputs>>

\* what the caller gets: the tuple of line 215, or nothing (<<>>) when an
\* exception leaves the function
Returned(error, outputs) == IF error = NoError THEN <<outputs>> ELSE <<>>

SurfaceSegmenter ==
    /\ pc = "directed"
    /\ UNCHANGED app_vars
    /\ LET extras == directions.extras
           details == IF extras = <<>> THEN <<>> ELSE extras[1].values
           error ==
               IF extras = <<>>
               THEN \* line 168: the properties have no 'extras'
                    Exception("KeyError", "extras", NoMessage)
               ELSE IF extras[1].summary = <<>>
               THEN \* line 212: a frame built from no items has no 'value'
                    Exception("KeyError", "value", NoMessage)
               ELSE NoError
           segments == AddRoadSurfaceId(directions.coordinates, details)
           detailed == RouteDetailed(segments)
       IN  /\ gdf' = IF extras = <<>> THEN <<>> ELSE segments
           /\ route_detailed' = IF extras = <<>> THEN <<>> ELSE detailed
           /\ raised' = error
           /\ pc' = IF error = NoError THEN "returned" ELSE "failed"
           /\ result' =
                  Returned(error,
                           [route_detailed |-> route_detailed',
                            source |-> source,
                            final_stop |-> final_stop,
                            destinations |-> destinations,
                            route_segments |-> route_segments,
                            input_dest_id_field |-> input_dest_id_field])
    /\ UNCHANGED <<input_source, input_final_stop, input_destinations,
                   input_dest_id_field, source, final_stop, destinations,
                   vehicle, jobs, all_points_for_lookup, e, steps,
                   job_sequence, locations, ordered_coords, route_segments,
                   dest_names, opt_requests, dir_requests, dir_request,
                   directions,
                   surface_stats, table_html, peer, ors_client>>

-----------------------------------------------------------------------------
(* src/routing_app_v3.py, lines 986-1009: the surface statistics of the    *)
(* application.  A row is [surface, total_length_km (hundredths of a       *)
(* kilometre), percentage (hundredths of a percent; <<>> is NaN)].         *)

\* the labels of the dictionary in the order of the groups of
\* groupby('surface'), which sorts its keys
SurfaceLabels ==
    <<"Asphalt", "Compacted Gravel", "Concrete", "Dirt", "Grass",
      "Grass Paver", "Gravel", "Ground", "Ice", "Metal", "Paved",
      "Paving Stones", "Sand", "Unknown", "Unpaved", "Wood">>

\* df.groupby('surface')['segment_length'].sum() for one label, from the
\* lengths to the micrometre
RECURSIVE TotalLength(_, _)
TotalLength(detailed, label) ==
    IF detailed = <<>> THEN 0
    ELSE TotalLength(Tail(detailed), label)
         + (IF Head(detailed).surface = label THEN Head(detailed).segment_length
            ELSE 0)

\* The program sums the lengths as doubles, divides and multiplies in
\* doubles and rounds once, at the end.  The model has each length to the
\* nearest micrometre, so what the program rounds lies within one micrometre
\* per segment of the sum of the model (a segment between two equal points
\* has the length 0 in both); the error of the double arithmetic is far
\* smaller.  This is the number of micrometres the sum over the segments of
\* a label may be off.
Unsure(detailed, label) ==
    Len(SelectSeq(detailed,
                  LAMBDA g : g.surface = label /\ g.segment_length > 0))

\* <<q, r>> with k n = q d + r and r < d, for n < d: n is added k times, and
\* no sum passes d
RECURSIVE TimesOver(_, _, _)
TimesOver(n, k, d) ==
    IF k = 0 THEN <<0, 0>>
    ELSE Of(LAMBDA qr : IF qr[2] >= d - n
                        THEN <<qr[1] + 1, qr[2] - (d - n)>>
                        ELSE <<qr[1], qr[2] + n>>,
            TimesOver(n, k - 1, d))

\* <<q, r>> with n 10^places = q d + r and r < d: the integer part of n / d
\* and its first decimal places
RECURSIVE Divided(_, _, _)
Divided(n, d, places) ==
    IF places = 0 THEN <<n \div d, n % d>>
    ELSE Of(LAMBDA qr :
                Of(LAMBDA next : <<10 * qr[1] + next[1], next[2]>>,
                   TimesOver(qr[2], 10, d)),
            Divided(n, d, places - 1))

\* a mutant of Rounded: the fraction is cut off
Rounded_down(n, d, places, up) == Divided(n, d, places)[1]

\* n 10^places / d rounded to an integer: to the nearest, and a value midway
\* between two integers up or down as 'up' says
Rounded(n, d, places, up) ==
    Of(LAMBDA qr : IF qr[2] < d - qr[2] THEN qr[1]
                   ELSE IF qr[2] > d - qr[2] THEN qr[1] + 1
                   ELSE IF up THEN qr[1] + 1 ELSE qr[1],
       Divided(n, d, places))

\* round(2) of a value that lies between low / d and high / d, in
\* hundredths ('places' is 0) or, for a share, in hundredths of a percent
\* ('places' is 4): <<the least, the greatest>> the rounding may give
RoundedWithin(low, high, d_low, d_high, places) ==
    <<Rounded(low, d_high, places, FALSE), Rounded(high, d_low, places, TRUE)>>

\* a hundredth of a kilometre, in micrometres
Hundredth == 10000000

\* Lines 1000-1009: the tables the handler may build from the path segments.
\* A rounded value is that of the sum of the model wherever the micrometres
\* the sum may be off cannot change it; where they can, it is any of the
\* values they allow.  sort_values(ascending=False) leaves rows of equal
\* rounded length in any order.
SurfaceStats(detailed) ==
    LET present == {detailed[i].surface : i \in DOMAIN detailed}
        labels  == SelectSeq(SurfaceLabels, LAMBDA l : l \in present)
        total   == Sum([i \in DOMAIN detailed |-> detailed[i].segment_length],
                       Len(detailed))
        off     == Len(SelectSeq(detailed, LAMBDA g : g.segment_length > 0))
        sums    == {<<k, TotalLength(detailed, labels[k]),
                      Unsure(detailed, labels[k])>> : k \in DOMAIN labels}
        kms     == {<<m[1], RoundedWithin(m[2] - m[3], m[2] + m[3],
                                          Hundredth, Hundredth, 0)>> :
                       m \in sums}
        shares  == {<<m[1],
                      IF total = 0 THEN <<>>
                      ELSE IF Len(labels) = 1 THEN <<10000, 10000>>
                      ELSE Of(LAMBDA w : <<w[1], IF w[2] > 10000 THEN 10000
                                                 ELSE w[2]>>,
                              RoundedWithin(m[2] - m[3], m[2] + m[3],
                                            total - off, total + off, 4))>> :
                       m \in sums}
        km(k)    == (CHOOSE m \in kms : m[1] = k)[2]
        share(k) == (CHOOSE m \in shares : m[1] = k)[2]
    IN  Of2(LAMBDA ks, ps :
                UNION
                {SortValues(
                     [k \in DOMAIN labels |->
                         [key |-> 0 - ks[k][IF k \in upK THEN 2 ELSE 1],
                          item |->
                              [surface |-> labels[k],
                               total_length_km |->
                                   ks[k][IF k \in upK THEN 2 ELSE 1],
                               percentage |->
                                   IF ps[k] = <<>> THEN <<>>
                                   ELSE <<ps[k][IF k \in upP THEN 2
                                                ELSE 1]>>]]]) :
                    upK \in SUBSET {k \in DOMAIN labels : ks[k][1] # ks[k][2]},
                    upP \in SUBSET {k \in DOMAIN labels :
                                       /\ ps[k] # <<>>
                                       /\ ps[k][1] # ps[k][2]}},
            [k \in DOMAIN labels |-> km(k)],
            [k \in DOMAIN labels |-> share(k)])

-----------------------------------------------------------------------------
(* The inputs of the pipeline model *)

\* a row of an input table: latitude, longitude, identifier
Row(point, id) == <<point[2], point[1], id>>

SourceTables ==
    {[columns |-> h, rows |-> <<Row(p, "Depot")>>] :
        h \in {<<"latitude", "longitude", "name">>,
               <<"Y", "X", "Name">>,
               <<"lat", "easting", "name">>},
        p \in SourcePoints}

FinalStopTables ==
    {[columns |-> h, rows |-> <<Row(p, "Garage")>>] :
        h \in {<<"Lat", "LON", "name">>,
               <<"northing", "lon", "Name">>},
        p \in FinalStopPoints}

DestId(i) == <<"A", "B", "C", "D", "E", "F", "G", "H", "I", "J", "K", "L", "M">>[i]

DestinationTables ==
    {[columns |-> h, rows |-> [i \in DOMAIN ps |-> Row(ps[i], DestId(i))]] :
        h \in {<<"latitude", "longitude", "destination_id">>,
               <<"y", "x", "ID">>,
               <<"LATITUDE", "lon_deg", "destination_id">>},
        ps \in SeqsUpTo(PointSet, MaxDest)}

Init ==
    /\ ServerStart
    /\ pc = "start"
    /\ input_source \in SourceTables
    /\ input_final_stop \in FinalStopTables
    /\ input_destinations \in DestinationTables
    /\ input_dest_id_field = input_destinations.columns[3]
    /\ source = <<>>
    /\ final_stop = <<>>
    /\ destinations = <<>>
    /\ vehicle = <<>>
    /\ jobs = <<>>
    /\ all_points_for_lookup = <<>>
    /\ e = NoError
    /\ raised = NoError
    /\ steps = <<>>
    /\ job_sequence = <<>>
    /\ locations = <<>>
    /\ ordered_coords = <<>>
    /\ route_segments = <<>>
    /\ dest_names = <<>>
    /\ opt_requests = 0
    /\ dir_requests = 0
    /\ dir_request = <<>>
    /\ directions = <<>>
    /\ gdf = <<>>
    /\ route_detailed = <<>>
    /\ result = <<>>
    /\ surface_stats = <<>>
    /\ table_html = <<>>
    /\ peer = <<>>
    /\ ors_client = Client(ors_api_key)

Next ==
    \/ Normalize
    \/ BuildRequest
    \/ CallOptimization
    \/ VisitSequencer
    \/ CallDirections
    \/ SurfaceSegmenter

Spec == Init /\ [][Next]_vars


-----------------------------------------------------------------------------
(* The visit sequencer on its own: optimal_route from line 91 on, entered  *)
(* with the request of a destinations table and a response of the service  *)

\* jobs of a response whose step array and distances are arbitrary
MaxJobs == 2
\* destinations of a response whose job locations are near one another
MaxJoin == 2
\* destinations of a route visited in input order
MaxRank == 10

\* the cumulative distances of an arbitrary step list, in metres: 13015 is
\* midway between two hundredths of a kilometre from 0 (13.02 km as the
\* doubles fall) and from 12000 (1.01 km)
DistSet == {0, 5004, 12000, 13015}

TableAt(points) ==
    [columns |-> <<"latitude", "longitude", "destination_id">>,
     rows |-> [i \in DOMAIN points |-> Row(points[i], DestId(i))]]

SourceAt(point) ==
    [columns |-> <<"latitude", "longitude", "name">>,
     rows |-> <<Row(point, "Depot")>>]

FinalStopAt(point) ==
    [columns |-> <<"latitude", "longitude", "name">>,
     rows |-> <<Row(point, "Garage")>>]

\* the step lists of K jobs: the start step, the job steps in any array
\* order and the end step, with any distances
ArbitrarySteps(veh, job_list) ==
    LET n == Len(job_list)
    IN  {<<Step("start", <<>>, veh.start, dist[1])>>
         \o [k \in 1..n |->
               Step("job", <<job_list[perm[k]].id>>, job_list[perm[k]].location,
                    dist[k + 1])]
         \o <<Step("end", <<>>, veh.end, dist[n + 2])>> :
            perm \in Orderings(1..n), dist \in [1..(n + 2) -> DistSet]}

\* the step list of the example: start@0, job 2@5000, job 1@12000,
\* job 3@18000, end@25000
ExampleSteps(veh, job_list) ==
    <<Step("start", <<>>, veh.start, 0),
      Step("job", <<2>>, job_list[2].location, 5000),
      Step("job", <<1>>, job_list[1].location, 12000),
      Step("job", <<3>>, job_list[3].location, 18000),
      Step("end", <<>>, veh.end, 25000)>>

\* a response whose steps in 'moved' carry a location 55 m north of the
\* one the request gave
Displaced(step_list, moved) ==
    [i \in DOMAIN step_list |->
        IF step_list[i].job # <<>> /\ step_list[i].job[1] \in moved
        THEN [step_list[i] EXCEPT !.location = <<@[1], @[2] + 50>>]
        ELSE step_list[i]]

JoinPoints == {<<0, 0>>, <<5, 5>>, <<10, 0>>, <<0, 300>>}

RequestVehicle(start, end) ==
    Vehicle(GeoDataFrame(SourceAt(start)).geometry[1],
            GeoDataFrame(FinalStopAt(end)).geometry[1])

RequestJobs(points) == Jobs(GeoDataFrame(TableAt(points)).geometry)

\* the n first destinations of a table of places far apart
FarPoints(n) == [j \in 1..n |-> FarPoint(j)]

\* optimal_route at line 91: the tables normalized, the request built of
\* the destinations at 'points', and the response 'step_list' received
Received(points, step_list) ==
    /\ pc = "optimized"
    /\ input_source = SourceAt(VisitStart)
    /\ input_final_stop = FinalStopAt(VisitEnd)
    /\ input_destinations = TableAt(points)
    /\ input_dest_id_field = "destination_id"
    /\ source = GeoDataFrame(SetColumn(input_source, "name", "Starting point"))
    /\ final_stop = GeoDataFrame(SetColumn(input_final_stop, "name", "Final stop"))
    /\ destinations = GeoDataFrame(input_destinations)
    /\ vehicle = Vehicle(source.geometry[1], final_stop.geometry[1])
    /\ jobs = Jobs(destinations.geometry)
    /\ all_points_for_lookup =
           AllPointsForLookup(source, final_stop, destinations,
                              input_dest_id_field)
    /\ e = NoError
    /\ raised = NoError
    /\ steps = step_list
    /\ job_sequence = <<>>
    /\ locations = <<>>
    /\ ordered_coords = <<>>
    /\ route_segments = <<>>
    /\ dest_names = <<>>
    /\ opt_requests = 1
    /\ dir_requests = 0
    /\ dir_request = <<>>
    /\ directions = <<>>
    /\ gdf = <<>>
    /\ route_detailed = <<>>
    /\ result = <<>>
    /\ surface_stats = <<>>
    /\ table_html = <<>>
    /\ peer = <<>>
    /\ ors_client = Called(Client(ors_api_key),
                         OptimizationRequest(jobs, vehicle))
    /\ ServerStart

InitVisit ==
    LET veh == RequestVehicle(VisitStart, VisitEnd)
    IN  \* any array order of the job steps, any distances
        \/ \E n \in 1..MaxJobs :
             \E sl \in ArbitrarySteps(veh, RequestJobs(FarPoints(n))) :
                Received(FarPoints(n), sl)
        \* the example
        \/ Received(FarPoints(3), ExampleSteps(veh, RequestJobs(FarPoints(3))))
        \* destinations near one another, some steps displaced
        \/ \E ps \in SeqsUpTo(JoinPoints, MaxJoin) \ {<<>>} :
             \E order \in Orderings(1..Len(ps)), v \in BOOLEAN,
                moved \in SUBSET (1..Len(ps)) :
                Received(ps, Displaced(RouteSteps(veh, RequestJobs(ps), order,
                                                  [k \in 1..(Len(ps) + 1) |-> 5004],
                                                  v), moved))
        \* many destinations, visited in input order or from the second on
        \/ \E n \in 1..MaxRank, r \in 0..1 :
             Received(FarPoints(n),
                      RouteSteps(veh, RequestJobs(FarPoints(n)),
                                 [k \in 1..n |-> ((k + r - 1) % n) + 1],
                                 [k \in 1..(n + 1) |-> 5004], TRUE))

SpecVisit == InitVisit /\ [][VisitSequencer]_vars

\* the sequencer and the directions call that follows it
NextRequest ==
    \/ VisitSequencer
    \/ CallDirections

SpecRequest == InitVisit /\ [][NextRequest]_vars

-----------------------------------------------------------------------------
(* The surface segmenter and the statistics on their own: optimal_route    *)
(* from line 168 on, entered with a response of the directions service     *)

\* segments of a path whose ranges are arbitrary
MaxPath == 3
\* segments of a path each on a surface of its own
MaxTypes == 16

\* the codes of the arbitrary ranges: 5 is no code of the dictionary
SurfaceCodeSet == {0, 3, 5, 10}

\* a path of n segments eastwards from the source, each 9 units long, or
\* the i-th i times as long
PathCoords(n, growing) ==
    [i \in 1..(n + 1) |->
        <<VisitStart[1] + (IF growing THEN 9 * (((i - 1) * i) \div 2)
                           ELSE 9 * (i - 1)),
          VisitStart[2]>>]

\* the ranges a response may carry for a path of n segments: up to two,
\* over any coordinate indices
ArbitraryRanges(n) ==
    LET one == {<<a, b, c>> : a \in 0..n, b \in 0..n, c \in SurfaceCodeSet}
        ok  == {r \in one : r[1] <= r[2]}
    IN  {<<>>} \cup {<<r>> : r \in ok} \cup {<<r, q>> : r \in ok, q \in ok}

\* the i-th code of the dictionary, and codes it has not after its last
TypeCode(i) ==
    IF i <= Len(surface_codes) THEN surface_codes[i][1] ELSE 19 + i

\* the ranges of a path whose i-th segment is alone on its surface, each
\* range ending on the coordinate where the next begins
OwnRanges(n) == [i \in 1..n |-> <<i - 1, i, TypeCode(i)>>]

\* the ranges of the example: [0, 10] as code 3 and [11, 20] as code 10
ExampleRanges == <<(<<0, 10, 3>>), (<<11, 20, 10>>)>>

\* the same path with ranges that meet on coordinate 10
MeetingRanges == <<(<<0, 10, 3>>), (<<10, 20, 10>>)>>

\* a response with the ranges 'v' for the path 'coords'
WithRanges(coords, v) ==
    DirectionsResponse(coords, SurfaceExtras(v, SummaryOf(v)))

\* optimal_route at line 168: one destination visited, the ordered
\* coordinates sent, and the response 'r' of the directions service received
Directed(r) ==
    LET points == FarPoints(1)
        veh    == RequestVehicle(VisitStart, VisitEnd)
        sl     == RouteSteps(veh, RequestJobs(points), <<1>>, <<5004, 5004>>, TRUE)
        seq    == CHOOSE x \in JobSequences(sl) : TRUE
        locs   == CHOOSE x \in Locations(sl) : TRUE
        dests  == CHOOSE x \in OrderedDestinations(GeoDataFrame(TableAt(points)),
                                                   seq, "destination_id") : TRUE
    IN  /\ pc = "directed"
        /\ input_source = SourceAt(VisitStart)
        /\ input_final_stop = FinalStopAt(VisitEnd)
        /\ input_destinations = TableAt(points)
        /\ input_dest_id_field = "destination_id"
        /\ source = GeoDataFrame(SetColumn(input_source, "name", "Starting point"))
        /\ final_stop = GeoDataFrame(SetColumn(input_final_stop, "name", "Final stop"))
        /\ destinations = dests
        /\ vehicle = veh
        /\ jobs = RequestJobs(points)
        /\ all_points_for_lookup =
               AllPointsForLookup(source, final_stop,
                                  GeoDataFrame(input_destinations),
                                  input_dest_id_field)
        /\ e = NoError
        /\ raised = NoError
        /\ steps = sl
        /\ job_sequence = seq
        /\ locations = locs
        /\ ordered_coords = OrderedCoords(locs)
        /\ route_segments = NamedSegments(RouteSegments(locs), DestNames(dests))
        /\ dest_names = DestNames(dests)
        /\ opt_requests = 1
        /\ dir_requests = 1
        /\ dir_request = DirectionsRequest(OrderedCoords(locs))
        /\ directions = r
        /\ gdf = <<>>
        /\ route_detailed = <<>>
        /\ result = <<>>
        /\ surface_stats = <<>>
        /\ table_html = <<>>
        /\ peer = <<>>
        /\ ors_client = Called(Client(ors_api_key), dir_request)
        /\ ServerStart

\* the responses of the directions service the surface segmenter starts
\* from, for paths of up to 'most' segments with any ranges and paths of up
\* to 'types' segments each on a surface of its own
SurfaceResponses(most, types) ==
    \* any ranges on a short path
    UNION {{WithRanges(PathCoords(n, g), v) :
                v \in ArbitraryRanges(n), g \in BOOLEAN} : n \in 1..most}
    \* no surface extras
    \cup {DirectionsResponse(PathCoords(1, FALSE), <<>>)}
    \* the example, and the same path with ranges that meet
    \cup {WithRanges(PathCoords(20, FALSE), v) :
              v \in {ExampleRanges, MeetingRanges}}
    \* every segment on a surface of its own
    \cup {WithRanges(PathCoords(n, TRUE), OwnRanges(n)) : n \in 1..types}

InitSurface == \E r \in SurfaceResponses(MaxPath, MaxTypes) : Directed(r)

-----------------------------------------------------------------------------
(* Two invocations of optimal_route in one process (lines 11-24).  Every   *)
(* name optimal_route assigns is a local of the call, so each invocation   *)
(* has a frame of its own; the module holds ors_client, which is bound     *)
(* once, at import, and which optimal_route only calls.  The variables     *)
(* are the frame of the invocation that runs, 'peer' is the frame of the   *)
(* one that waits, and the two take turns between any two steps.           *)

\* the frame of the running invocation
Frame ==
    [pc |-> pc,
     input_source |-> input_source,
     input_final_stop |-> input_final_stop,
     input_destinations |-> input_destinations,
     input_dest_id_field |-> input_dest_id_field,
     source |-> source,
     final_stop |-> final_stop,
     destinations |-> destinations,
     vehicle |-> vehicle,
     jobs |-> jobs,
     all_points_for_lookup |-> all_points_for_lookup,
     e |-> e,
     raised |-> raised,
     steps |-> steps,
     job_sequence |-> job_sequence,
     locations |-> locations,
     ordered_coords |-> ordered_coords,
     route_segments |-> route_segments,
     dest_names |-> dest_names,
     opt_requests |-> opt_requests,
     dir_requests |-> dir_requests,
     dir_request |-> dir_request,
     directions |-> directions,
     gdf |-> gdf,
     route_detailed |-> route_detailed,
     result |-> result]

\* the frame of an invocation that has just been called
StartFrame(src, fin, dst, field) ==
    [pc |-> "start",
     input_source |-> src,
     input_final_stop |-> fin,
     input_destinations |-> dst,
     input_dest_id_field |-> field,
     source |-> <<>>,
     final_stop |-> <<>>,
     destinations |-> <<>>,
     vehicle |-> <<>>,
     jobs |-> <<>>,
     all_points_for_lookup |-> <<>>,
     e |-> NoError,
     raised |-> NoError,
     steps |-> <<>>,
     job_sequence |-> <<>>,
     locations |-> <<>>,
     ordered_coords |-> <<>>,
     route_segments |-> <<>>,
     dest_names |-> <<>>,
     opt_requests |-> 0,
     dir_requests |-> 0,
     dir_request |-> <<>>,
     directions |-> <<>>,
     gdf |-> <<>>,
     route_detailed |-> <<>>,
     result |-> <<>>]

\* a mutant of Resumed: 'destinations' is a name of the module, and the
\* resumed invocation finds in it what the other one left
Resumed_global(own, other) == [own EXCEPT !.destinations = other.destinations]

\* the locals an invocation finds when it runs again: those of its own
\* frame, whatever the other invocation did meanwhile
Resumed(own, other) == own

\* the running invocation is suspended and the waiting one runs
Switch ==
    /\ peer # <<>>
    /\ UNCHANGED app_vars
    /\ LET f == Resumed(peer.frame, Frame)
       IN
           /\ pc' = f.pc
           /\ input_source' = f.input_source
           /\ input_final_stop' = f.input_final_stop
           /\ input_destinations' = f.input_destinations
           /\ input_dest_id_field' = f.input_dest_id_field
           /\ source' = f.source
           /\ final_stop' = f.final_stop
           /\ destinations' = f.destinations
           /\ vehicle' = f.vehicle
           /\ jobs' = f.jobs
           /\ all_points_for_lookup' = f.all_points_for_lookup
           /\ e' = f.e
           /\ raised' = f.raised
           /\ steps' = f.steps
           /\ job_sequence' = f.job_sequence
           /\ locations' = f.locations
           /\ ordered_coords' = f.ordered_coords
           /\ route_segments' = f.route_segments
           /\ dest_names' = f.dest_names
           /\ opt_requests' = f.opt_requests
           /\ dir_requests' = f.dir_requests
           /\ dir_request' = f.dir_request
           /\ directions' = f.directions
           /\ gdf' = f.gdf
           /\ route_detailed' = f.route_detailed
           /\ result' = f.result
    /\ peer' = [invocation |-> 3 - peer.invocation, frame |-> Frame]
    /\ UNCHANGED <<surface_stats, table_html, ors_client>>

\* the tables of the second request
OtherSource ==
    [columns |-> <<"Y", "X", "Name">>, rows |-> <<Row(<<5, 300>>, "Yard")>>]

OtherFinalStop ==
    [columns |-> <<"Lat", "LON", "name">>, rows |-> <<Row(<<10, 0>>, "Shed")>>]

OtherDestinations ==
    [columns |-> <<"y", "x", "destination_id">>,
     rows |-> <<Row(<<5, 5>>, "K")>>]

\* the invocation of frame f runs
Running(f) ==
    /\ pc = f.pc
    /\ input_source = f.input_source
    /\ input_final_stop = f.input_final_stop
    /\ input_destinations = f.input_destinations
    /\ input_dest_id_field = f.input_dest_id_field
    /\ source = f.source
    /\ final_stop = f.final_stop
    /\ destinations = f.destinations
    /\ vehicle = f.vehicle
    /\ jobs = f.jobs
    /\ all_points_for_lookup = f.all_points_for_lookup
    /\ e = f.e
    /\ raised = f.raised
    /\ steps = f.steps
    /\ job_sequence = f.job_sequence
    /\ locations = f.locations
    /\ ordered_coords = f.ordered_coords
    /\ route_segments = f.route_segments
    /\ dest_names = f.dest_names
    /\ opt_requests = f.opt_requests
    /\ dir_requests = f.dir_requests
    /\ dir_request = f.dir_request
    /\ directions = f.directions
    /\ gdf = f.gdf
    /\ route_detailed = f.route_detailed
    /\ result = f.result

\* two calls on different requests, the first one running
InitPair ==
    /\ \E n \in 1..2 :
          Running(StartFrame(SourceAt(VisitStart), FinalStopAt(VisitEnd),
                             TableAt(FarPoints(n)), "destination_id"))
    /\ peer = [invocation |-> 2,
               frame |-> StartFrame(OtherSource, OtherFinalStop,
                                    OtherDestinations, "destination_id")]
    /\ ors_client = Client(ors_api_key)
    /\ surface_stats = <<>>
    /\ table_html = <<>>
    /\ ServerStart

NextPair ==
    \/ Normalize
    \/ BuildRequest
    \/ CallOptimization
    \/ VisitSequencer
    \/ CallDirections
    \/ SurfaceSegmenter
    \/ Switch

SpecPair == InitPair /\ [][NextPair]_vars

-----------------------------------------------------------------------------
(* What the claims speak of, read from the caller's tables: a row of an    *)
(* input table is <<latitude, longitude, identifier>>                      *)

C_Point(row) == <<row[2], row[1]>>

C_LatAliases == {"lat", "latitude", "y"}
C_LonAliases == {"lon", "longitude", "x"}

\* the table has a latitude column and a longitude column
C_Resolves(table) ==
    /\ \E i \in DOMAIN table.columns : Lower(table.columns[i]) \in C_LatAliases
    /\ \E i \in DOMAIN table.columns : Lower(table.columns[i]) \in C_LonAliases

C_AllResolve ==
    /\ C_Resolves(input_source)
    /\ C_Resolves(input_final_stop)
    /\ C_Resolves(input_destinations)

\* the submitted points, each with the names an error may call it by
C_Submitted ==
    {[point |-> C_Point(input_source.rows[1]),
      names |-> {input_source.rows[1][3], "Starting point"}],
     [point |-> C_Point(input_final_stop.rows[1]),
      names |-> {input_final_stop.rows[1][3], "Final stop"}]}
    \cup {[point |-> C_Point(input_destinations.rows[r]),
           names |-> {input_destinations.rows[r][3], "Unnamed Destination"}] :
            r \in DOMAIN input_destinations.rows}

\* the coordinate pair of a message of one of the two recognized shapes
C_Parsed(message) ==
    IF message.routable /\ message.coordinate # <<>> THEN message.coordinate
    ELSE IF ~message.routable /\ message.unfound /\ message.location # <<>>
    THEN message.location
    ELSE <<>>

\* the numbers the program holds for the coordinates a and b, which are the
\* doubles nearest to them, are less than 0.0001 apart; off a decimal
\* distance of exactly 0.0001 degree the doubles are as the decimals
C_WithinOnAxis(a, b) ==
    IF Abs(a - b) # 10 THEN Abs(a - b) < 10
    ELSE Of2(LAMBDA A, B :
                 Of(LAMBDA S :
                        BigCompare(BigTimes(DoubleDifference(a, b, A, B, S),
                                            10000, 0),
                                   BigShift(<<1>>, S)) < 0,
                    Max3(A.s, B.s, 0)),
             Double(Abs(a), 100000), Double(Abs(b), 100000))

\* within 0.0001 degree on both axes.  Two coordinates whose decimals are
\* exactly 0.0001 apart are within the tolerance or not as their doubles
\* fall: 0.00015 and 0.00005 are, 0.0001 and 0 are not
C_Within(point, c) ==
    /\ C_WithinOnAxis(point[1], c[1])
    /\ C_WithinOnAxis(point[2], c[2])

\* exactly 0.0001 degree of longitude away, at the same latitude
C_OnTheEdge(point, c) ==
    /\ Abs(point[1] - c[1]) = 10
    /\ point[2] = c[2]

\* the optimization call of this invocation raised
C_CallFailed == pc = "failed" /\ e # NoError

\* the request has been built
C_Built ==
    \/ pc \in {"built", "optimized", "sequenced"}
    \/ pc = "failed" /\ raised.type # "AttributeError"

-----------------------------------------------------------------------------
(* C1. When the optimization call fails with a message of a recognized     *)
(* shape and some submitted point (source, final stop or a destination)    *)
(* lies within 0.0001 degree of the parsed coordinate on both axes,        *)
(* optimal_route fails with the 'Unroutable Location' ValueError, whose    *)
(* message names a submitted point within that tolerance; it never fails   *)
(* with the raw service error.                                             *)
C1_UnroutableNamesNearPoint ==
    (/\ C_CallFailed
     /\ C_Parsed(e.message) # <<>>
     /\ \E p \in C_Submitted : C_Within(p.point, C_Parsed(e.message)[1]))
    => /\ raised.type = "ValueError"
       /\ raised # e
       /\ \E p \in C_Submitted :
            /\ C_Within(p.point, C_Parsed(e.message)[1])
            /\ raised.name \in p.names

\* the source alone is near the coordinate of the message, 0.0001 degree of
\* longitude away by the decimals and less by the doubles, and is named
C1_Witness ==
    /\ C_CallFailed
    /\ e.message.routable
    /\ C_Parsed(e.message) # <<>>
    /\ C_OnTheEdge(C_Point(input_source.rows[1]), C_Parsed(e.message)[1])
    /\ input_destinations.rows = <<>>
    /\ raised.type = "ValueError"
    /\ raised.name \in {"Depot", "Starting point"}

(* C2. When the optimization call fails and the message is of no           *)
(* recognized shape, or its coordinate pair cannot be parsed, or no        *)
(* submitted point lies within tolerance of the parsed coordinate,         *)
(* optimal_route fails with the service error itself, unchanged.           *)
C2_OriginalErrorPropagates ==
    (/\ C_CallFailed
     /\ \/ C_Parsed(e.message) = <<>>
        \/ \A p \in C_Submitted : ~C_Within(p.point, C_Parsed(e.message)[1]))
    => raised = e

\* a parsed coordinate that no submitted point is near, the final stop
\* being 0.0001 degree of longitude away by the decimals and by the doubles:
\* the ApiError is re-raised
C2_Witness ==
    /\ C_CallFailed
    /\ e.type = "ApiError"
    /\ e.message.routable
    /\ C_Parsed(e.message) # <<>>
    /\ C_OnTheEdge(C_Point(input_final_stop.rows[1]), C_Parsed(e.message)[1])
    /\ raised = e

(* C4. For a destinations table of N >= 1 rows the routing request holds   *)
(* the vehicle from the source point to the final-stop point and exactly N *)
(* jobs; the job of the i-th input row has id i, that row's coordinate as  *)
(* location and priority 1.                                                *)
C4_RequestOfTheTables ==
    (C_Built /\ Len(input_destinations.rows) >= 1)
    => /\ vehicle.start = C_Point(input_source.rows[1])
       /\ vehicle.end = C_Point(input_final_stop.rows[1])
       /\ Len(jobs) = Len(input_destinations.rows)
       /\ \A i \in DOMAIN jobs :
            /\ jobs[i].id = i
            /\ jobs[i].location = C_Point(input_destinations.rows[i])
            /\ jobs[i].priority = 1
       /\ {jobs[i].id : i \in DOMAIN jobs} = 1..Len(input_destinations.rows)

\* a request of two jobs at different places
C4_Witness ==
    /\ pc = "built"
    /\ Len(jobs) = 2
    /\ jobs[1].location # jobs[2].location
    /\ vehicle.start # vehicle.end

(* C5. Calling optimal_route with a destinations table of zero rows fails  *)
(* with an EmptyDestinations error (the tables having their coordinate     *)
(* columns): the invocation gets no further than the request, and what it  *)
(* fails with is that error.                                               *)
C5_EmptyDestinationsFails ==
    (C_AllResolve /\ Len(input_destinations.rows) = 0)
    => /\ pc \in {"start", "normalized", "built", "failed"}
       /\ e = NoError
       /\ pc = "failed" => raised.type = "EmptyDestinations"

(* C6. If the source, the final-stop or the destinations table has no      *)
(* column that is a latitude alias, or none that is a longitude alias,     *)
(* after lower-casing, optimal_route fails at the conversion of the tables *)
(* with the error of the missing column (pandas' AttributeError on         *)
(* df.lon / df.lat).                                                       *)
C6_MissingColumnFails ==
    (~C_AllResolve /\ pc # "start")
    => /\ pc = "failed"
       /\ raised.type = "AttributeError"
       /\ raised.name \in {"lon", "lat"}
       /\ e = NoError

\* the source resolves, the final stop has no latitude column
C6_Witness ==
    /\ pc = "failed"
    /\ C_Resolves(input_source)
    /\ ~C_Resolves(input_final_stop)
    /\ raised = Exception("AttributeError", "lat", NoMessage)

-----------------------------------------------------------------------------
(* What the claims on the visit sequencer speak of *)

\* optimal_route has got as far as the named route segments
C_Sequenced == pc = "sequenced"

\* the positions of the job steps in the step list
C_JobSteps == {i \in DOMAIN steps : steps[i].job # <<>>}

\* the step list is a start step, job steps and an end step, listed as
\* visited: the distances never decrease along the list
C_InVisitOrder ==
    /\ Len(steps) >= 3
    /\ steps[1].type = "start"
    /\ steps[Len(steps)].type = "end"
    /\ \A i \in 2..(Len(steps) - 1) : steps[i].type = "job"
    /\ \A i \in 1..(Len(steps) - 1) : steps[i].distance <= steps[i + 1].distance

\* the distances are cumulative: they start at 0 and never decrease
C_Cumulative ==
    /\ steps[1].distance = 0
    /\ \A i \in 1..(Len(steps) - 1) : steps[i].distance <= steps[i + 1].distance

\* the k-th smallest of the cumulative distances of the steps
C_Nth(k) ==
    CHOOSE d \in {steps[i].distance : i \in DOMAIN steps} :
        /\ Cardinality({i \in DOMAIN steps : steps[i].distance < d}) < k
        /\ k <= Cardinality({i \in DOMAIN steps : steps[i].distance <= d})

\* v hundredths of a kilometre is 'metres' rounded to 2 decimals of a kilometre
C_Rounds(v, metres) == 10 * v - metres <= 5 /\ metres - 10 * v <= 5

\* the metres of the first k segments, before the rounding
RECURSIVE C_Metres(_)
C_Metres(k) ==
    IF k = 0 THEN 0
    ELSE C_Metres(k - 1) + (locations[k + 1].distance - locations[k].distance)

\* the start step is the only step of the least cumulative distance, the end
\* step the only one of the greatest
C_StartFirstEndLast ==
    \E s, t \in DOMAIN steps :
        /\ steps[s].type = "start"
        /\ steps[t].type = "end"
        /\ \A i \in DOMAIN steps \ {s} : steps[s].distance < steps[i].distance
        /\ \A i \in DOMAIN steps \ {t} : steps[i].distance < steps[t].distance

\* the identifier the caller gave the destination whose job has rank n
C_IdOfRank(n) ==
    LET p == CHOOSE q \in DOMAIN job_sequence : job_sequence[q].rank = n
    IN  input_destinations.rows[job_sequence[p].job][3]

\* a name of a visited place with its generic label, if it is one, replaced
C_Named(label) ==
    IF \E n \in 1..Len(job_sequence) : label = <<"destination ">> \o Digits(n)
    THEN <<C_IdOfRank(CHOOSE n \in 1..Len(job_sequence) :
                          label = <<"destination ">> \o Digits(n))>>
    ELSE label

\* the step list of the example
C_Example ==
    /\ Len(steps) = 5
    /\ [i \in 1..5 |-> steps[i].distance] = <<0, 5000, 12000, 18000, 25000>>
    /\ [i \in 2..4 |-> steps[i].job[1]] = [i \in 2..4 |-> <<2, 1, 3>>[i - 1]]

-----------------------------------------------------------------------------
(* C3. For every step list, whatever the order of the steps in the array,  *)
(* the rank of each job step is its 1-based position among the job steps   *)
(* sorted ascending by cumulative distance (among job steps of one         *)
(* distance, any of their positions), and the ranks are exactly 1..K.      *)
C3_RankIsPositionByDistance ==
    C_Sequenced
    => /\ {job_sequence[p].rank : p \in DOMAIN job_sequence}
              = 1..Cardinality(C_JobSteps)
       /\ \A p \in DOMAIN job_sequence :
            LET d == job_sequence[p].distance
                nearer == {i \in C_JobSteps : steps[i].distance < d}
                as_near == {i \in C_JobSteps : steps[i].distance <= d}
            IN  /\ Cardinality(nearer) < job_sequence[p].rank
                /\ job_sequence[p].rank <= Cardinality(as_near)

(* C7. For a step list whose cumulative distances start at 0 and never     *)
(* decrease along the list, there is one route segment per step after the  *)
(* first, its length is not negative and is the cumulative distance of its *)
(* step minus that of the step before, rounded to hundredths of a          *)
(* kilometre, and the lengths in metres before the rounding sum to the     *)
(* cumulative distance of the last step.                                   *)
C7_SegmentLengths ==
    (C_Sequenced /\ C_Cumulative)
    => /\ Len(route_segments) = Len(steps) - 1
       /\ \A i \in DOMAIN route_segments :
            /\ route_segments[i].distance # <<>>
            /\ route_segments[i].distance[1] >= 0
            /\ C_Rounds(route_segments[i].distance[1],
                        steps[i + 1].distance - steps[i].distance)
            /\ locations[i + 1].distance - locations[i].distance
                   = steps[i + 1].distance - steps[i].distance
       /\ C_Metres(Len(route_segments)) = steps[Len(steps)].distance

\* the example: 5.00, 7.00, 6.00 and 7.00 km
C7_Witness ==
    /\ C_Sequenced
    /\ C_Example
    /\ [i \in 1..4 |-> route_segments[i].distance] =
           <<(<<500>>), (<<700>>), (<<600>>), (<<700>>)>>

C9_LabelsBecomeIdentifiers ==
    (C_Sequenced /\ C_InVisitOrder)
    => /\ Len(route_segments) = Len(locations) - 1
       /\ \A i \in DOMAIN route_segments :
            route_segments[i].segment_name =
                C_Named(locations[i].name) \o <<" to ">>
                    \o C_Named(locations[i + 1].name)

(* C10. The ordered destinations table never holds the same input          *)
(* destination more than once: the join gives each input destination one   *)
(* rank or leaves it unmatched, also when it lies within 10 m of two or    *)
(* more ranked job steps.                                                  *)
C10_EachDestinationOnce ==
    C_Sequenced
    => /\ Len(destinations) = Len(input_destinations.rows)
       /\ \A k, m \in DOMAIN destinations :
            destinations[k].index = destinations[m].index => k = m

-----------------------------------------------------------------------------
(* What the claims on the join speak of *)

\* the point lies within 10 m of the place (the buffer of a ranked step),
\* a unit of longitude being 1114 mm and one of latitude 1107 mm in UTM
C_Within10m(point, place) ==
    LET dx == Abs(point[1] - place[1])
        dy == Abs(point[2] - place[2])
    IN  /\ dx <= 10
        /\ dy <= 10
        /\ (1114 * dx) * (1114 * dx) + (1107 * dy) * (1107 * dy)
              <= 10000 * 10000

\* the name of a row of the ordered destinations is that of rank n
C_NamesRank(name, n) ==
    \/ name = <<"Destination ">> \o Digits(n)
    \/ name = <<"Destination ">> \o Digits(n) \o <<".", "0">>

\* the name of a row of no rank
C_NoRank == <<"Destination ", "nan">>

(* C11. A destination that intersects no rank buffer is not dropped and    *)
(* does not make the sequencer fail: every input destination is in the     *)
(* ordered destinations table, one that is within 10 m of no ranked step   *)
(* with a null rank and a null distance, and one that is within 10 m of a  *)
(* ranked step with the rank and the distance of that step.                *)
C11_UnmatchedDestinationKept ==
    /\ pc # "failed"
    /\ C_Sequenced
       => \A r \in DOMAIN input_destinations.rows :
            LET p == C_Point(input_destinations.rows[r])
                near == {q \in DOMAIN job_sequence :
                            C_Within10m(p, job_sequence[q].location)}
                rows == {k \in DOMAIN destinations : destinations[k].index = r - 1}
            IN  /\ rows # {}
                /\ \A k \in rows :
                     destinations[k].id = input_destinations.rows[r][3]
                /\ near = {}
                   => \A k \in rows : /\ destinations[k].name = C_NoRank
                                      /\ destinations[k].distance = <<>>
                /\ \A q \in near :
                     \E k \in rows :
                        /\ C_NamesRank(destinations[k].name, job_sequence[q].rank)
                        /\ destinations[k].distance = <<job_sequence[q].distance>>

\* two destinations, the first matched by no step, the second by its own
C11_Witness ==
    /\ C_Sequenced
    /\ Len(destinations) = 2
    /\ destinations[1].index = 1
    /\ C_NamesRank(destinations[1].name, 2)
    /\ destinations[2].index = 0
    /\ destinations[2].name = C_NoRank

-----------------------------------------------------------------------------
(* What the claims on the path segments speak of *)

\* the invocation has returned its outputs to the caller
C_Returned == pc = "returned" /\ result # <<>>

\* the ranges of surface the directions response carried
C_Ranges == IF directions.extras = <<>> THEN <<>> ELSE directions.extras[1].values

\* the label of elementary segment s (counted from 0) of the returned path
C_SurfaceOf(s) == result[1].route_detailed[s + 1].surface

(* C12. For a path of 21 coordinates (elementary segments 0..19) with the  *)
(* surface ranges [0,10] as code 3 and [11,20] as code 10, segments 0-9    *)
(* are Asphalt, segments 10-19 are Gravel, and no segment is Unknown.      *)
C12_ExampleClassification ==
    (C_Returned /\ Len(directions.coordinates) = 21
                /\ C_Ranges = <<(<<0, 10, 3>>), (<<11, 20, 10>>)>>)
    => /\ Len(result[1].route_detailed) = 20
       /\ \A s \in 0..9 : C_SurfaceOf(s) = "Asphalt"
       /\ \A s \in 10..19 : C_SurfaceOf(s) = "Gravel"
       /\ \A s \in 0..19 : C_SurfaceOf(s) # "Unknown"

\* the fixed enumeration of surface types: code and label
C_Enumeration ==
    {<<0, "Unknown">>, <<1, "Paved">>, <<2, "Unpaved">>, <<3, "Asphalt">>,
     <<4, "Concrete">>, <<6, "Metal">>, <<7, "Wood">>,
     <<8, "Compacted Gravel">>, <<10, "Gravel">>, <<11, "Dirt">>,
     <<12, "Ground">>, <<13, "Ice">>, <<14, "Paving Stones">>,
     <<15, "Sand">>, <<17, "Grass">>, <<18, "Grass Paver">>}

C_Labels == {p[2] : p \in C_Enumeration}

\* the ranges that cover elementary segment s, by their place in the response
C_Covering(s) ==
    {k \in DOMAIN C_Ranges : C_Ranges[k][1] <= s /\ s <= C_Ranges[k][2]}

\* the code of a covered segment: that of the last range that covers it
C_CodeOf(s) ==
    C_Ranges[CHOOSE k \in C_Covering(s) : \A j \in C_Covering(s) : j <= k][3]

(* C13. Every returned path segment carries one of the 16 labels of the    *)
(* surface enumeration: the label of its code when the code is in the      *)
(* enumeration, and 'Unknown' when the code is not in the enumeration or   *)
(* no range covers the segment.                                            *)
C13_LabelOfTheEnumeration ==
    C_Returned
    => /\ Cardinality(C_Labels) = 16
       /\ \A s \in 0..(Len(result[1].route_detailed) - 1) :
            /\ C_SurfaceOf(s) \in C_Labels
            /\ C_Covering(s) = {} => C_SurfaceOf(s) = "Unknown"
            /\ C_Covering(s) # {}
               => IF \E p \in C_Enumeration : p[1] = C_CodeOf(s)
                  THEN <<C_CodeOf(s), C_SurfaceOf(s)>> \in C_Enumeration
                  ELSE C_SurfaceOf(s) = "Unknown"

\* a code the enumeration lacks, a code it has, and a segment left uncovered
C13_Witness ==
    /\ C_Returned
    /\ C_Ranges = <<(<<0, 0, 5>>), (<<1, 1, 10>>)>>
    /\ Len(result[1].route_detailed) = 3
    /\ C_SurfaceOf(0) = "Unknown"
    /\ C_SurfaceOf(1) = "Gravel"
    /\ C_SurfaceOf(2) = "Unknown"

-----------------------------------------------------------------------------
(* What the claims on the surface statistics speak of *)

\* the statistics of the stored route are shown
C_Shown == modal = "Road Surface Statistics"

\* the path segments of the stored route
C_StoredSegments == stored_result.route_detailed

\* the returned path segments
C_Segments == result[1].route_detailed

\* the summed length of the segments of one surface type
C_LengthOf(label) ==
    LET of == SelectSeq(C_StoredSegments, LAMBDA g : g.surface = label)
    IN  Sum([i \in DOMAIN of |-> of[i].segment_length], Len(of))

\* the length of all the segments
C_TotalLength ==
    Sum([i \in DOMAIN C_StoredSegments |-> C_StoredSegments[i].segment_length],
        Len(C_StoredSegments))

\* the percentages of the statistics, summed (hundredths of a percent)
C_PercentageSum ==
    Sum([k \in DOMAIN surface_stats |-> surface_stats[k].percentage[1]],
        Len(surface_stats))

\* The lengths are known to the micrometre; this is what the micrometre a
\* segment's length may be off can add to the distance between a
\* percentage times the total length and 10^4 times the summed length of its
\* type, doubled (hundredths of a percent times micrometres)
C_LengthSlack ==
    40000 * Len(SelectSeq(C_StoredSegments, LAMBDA g : g.segment_length > 0))

(* C14. For a non-empty set of path segments of positive total length the  *)
(* surface statistics have one row per surface type present, each          *)
(* percentage is the type's summed length over the total length times 100  *)
(* rounded to 2 decimals (as far as lengths known to the micrometre tell), *)
(* and the percentages sum to 100.00 within 0.1.                           *)
C14_PercentagesSumToHundred ==
    (C_Shown /\ C_StoredSegments # <<>> /\ C_TotalLength > 0)
    => /\ {surface_stats[k].surface : k \in DOMAIN surface_stats}
              = {C_StoredSegments[i].surface : i \in DOMAIN C_StoredSegments}
       /\ \A k, j \in DOMAIN surface_stats :
            surface_stats[k].surface = surface_stats[j].surface => k = j
       /\ \A k \in DOMAIN surface_stats :
            /\ surface_stats[k].percentage # <<>>
            /\ BigCompare(
                   BigTimes(
                       BigDistance(
                           BigTimes(Big(C_TotalLength),
                                    surface_stats[k].percentage[1], 0),
                           BigTimes(Big(C_LengthOf(surface_stats[k].surface)),
                                    10000, 0)),
                       2, 0),
                   Big(C_TotalLength + C_LengthSlack)) <= 0
       /\ Abs(C_PercentageSum - 10000) <= 10

\* three surface types present, and rounded percentages that do not sum to
\* 100.00
C14_Witness ==
    /\ C_Shown
    /\ C_TotalLength > 0
    /\ Len(surface_stats) = 3
    /\ C_PercentageSum # 10000

-----------------------------------------------------------------------------
(* What the claims on the whole invocation speak of *)

\* the points of a caller's table, one per row, in row order
C_Points(table) == [r \in DOMAIN table.rows |-> C_Point(table.rows[r])]

\* normalization is over
C_Normalized == pc # "start"

(* C15. Whichever alias (y/x, latitude/longitude, lat/lon) names the       *)
(* coordinate columns of an input table and in whatever letter case, the   *)
(* table is normalized to the points of its rows, one per row, in input    *)
(* row order: tables of the same rows are normalized to the same points.   *)
C15_AliasesGiveTheSamePoints ==
    (C_Normalized /\ C_AllResolve)
    => /\ source # <<>> /\ source.geometry = C_Points(input_source)
       /\ final_stop # <<>> /\ final_stop.geometry = C_Points(input_final_stop)
       /\ destinations # <<>>
       /\ pc = "normalized"
          => destinations.geometry = C_Points(input_destinations)

\* the three pairs of aliases, three in another letter case, and two
\* destinations at different places
C15_Witness ==
    /\ pc = "normalized"
    /\ input_source.columns = <<"Y", "X", "Name">>
    /\ input_final_stop.columns = <<"Lat", "LON", "name">>
    /\ input_destinations.columns = <<"latitude", "longitude", "destination_id">>
    /\ Len(input_destinations.rows) = 2
    /\ destinations.geometry = <<(<<5, 5>>), (<<5, 300>>)>>

\* the names of the six outputs
C_Outputs ==
    {"route_detailed", "source", "final_stop", "destinations",
     "route_segments", "input_dest_id_field"}

(* C16. An invocation is all-or-nothing: the caller gets either all six    *)
(* outputs (annotated path, source, final stop, ordered destinations,      *)
(* route segments, identifier field name) and no error, or an error and    *)
(* no output; a failure at any stage never yields a partial result.        *)
C16_AllOrNothing ==
    /\ pc = "failed" => raised # NoError /\ result = <<>>
    /\ pc = "returned" => raised = NoError /\ result # <<>>
    /\ pc \notin {"failed", "returned"} => result = <<>>
    /\ result # <<>>
       => /\ DOMAIN result[1] = C_Outputs
          /\ result[1].route_detailed = route_detailed
          /\ result[1].route_detailed # <<>>
          /\ result[1].source = source
          /\ result[1].final_stop = final_stop
          /\ result[1].destinations = destinations
          /\ result[1].route_segments = route_segments
          /\ result[1].input_dest_id_field = input_dest_id_field

\* a failure of the last stage, the route segments already computed
C16_Witness ==
    /\ pc = "failed"
    /\ raised.type = "KeyError"
    /\ dir_requests = 1
    /\ route_segments # <<>>
    /\ result = <<>>

\* a request to one of the two services has failed
C_RequestFailed ==
    \/ e # NoError
    \/ dir_requests > 0 /\ raised.type \in {"ApiError", "Timeout"}

(* C17. Within one invocation the optimization service is requested at     *)
(* most once and the directions service at most once, and once a request   *)
(* to either service has failed no further request is issued to either.    *)
C17_NoRetry ==
    /\ [](opt_requests <= 1 /\ dir_requests <= 1)
    /\ [][C_RequestFailed
          => opt_requests' = opt_requests /\ dir_requests' = dir_requests]_vars

\* the optimization answered and the directions request failed
C17_Witness ==
    /\ pc = "failed"
    /\ opt_requests = 1
    /\ dir_requests = 1
    /\ raised = Timeout

\* the inputs on which point normalization or request building is to fail
C_BadInputs == ~C_AllResolve \/ input_destinations.rows = <<>>

(* C18. Whenever point normalization or request building fails (the        *)
(* coordinate columns of an input table do not resolve, or the destination *)
(* list is empty), the invocation raises its error without having issued   *)
(* any request to the optimization or the directions service.              *)
C18_FailsBeforeAnyRequest ==
    C_BadInputs
    => /\ opt_requests = 0
       /\ dir_requests = 0

(* C20. optimal_route leaves the caller's three input tables unchanged     *)
(* (same columns, same column names, same rows) at every step, on success  *)
(* and on every failure path, and the identifier field name it returns is  *)
(* the one that was passed in.                                             *)
C20_InputsUnchanged ==
    /\ [][/\ input_source' = input_source
          /\ input_final_stop' = input_final_stop
          /\ input_destinations' = input_destinations
          /\ input_dest_id_field' = input_dest_id_field]_vars
    /\ [](result # <<>>
          => result[1].input_dest_id_field = input_dest_id_field)

\* a returned invocation whose working tables were renamed: the caller's
\* tables still carry the caller's names
C20_Witness ==
    /\ pc = "returned"
    /\ input_source.columns = <<"Y", "X", "Name">>
    /\ source.columns = <<"lat", "lon", "name", "name">>
    /\ input_final_stop.columns = <<"Lat", "LON", "name">>
    /\ input_destinations.columns = <<"latitude", "longitude", "destination_id">>
    /\ result[1].input_dest_id_field = "destination_id"

\* the identifiers of the rows of a caller's table
C_Ids(table) == {table.rows[r][3] : r \in DOMAIN table.rows}

\* the working tables a run makes of the caller's tables of frame f
\* (lines 20-24)
C_Tables(f) ==
    <<SetColumn(f.input_source, "name", "Starting point"),
      SetColumn(f.input_final_stop, "name", "Final stop"),
      f.input_destinations>>

\* the lookup list a run on the inputs of frame f builds (lines 47-54)
C_Lookup(f, src, fin, dst) ==
    <<LookupEntry(NameOrDefault(f.input_source, "Starting point"),
                  src.geometry[1]),
      LookupEntry(NameOrDefault(f.input_final_stop, "Final stop"),
                  fin.geometry[1])>>
    \o [r \in DOMAIN dst.rows |->
          LookupEntry(PointName(dst, r, f.input_dest_id_field),
                      dst.geometry[r])]

\* the invocation of frame f has returned or failed
C_Finished(f) == f.pc \in {"returned", "failed"}

\* the directions call of the invocation of frame f raised
C_DirectionsRaised(f) == f.dir_requests = 1 /\ f.directions = <<>>

\* What optimal_route, run alone on the caller's tables of frame f, may
\* return or fail with when the two services answer it as they answered the
\* invocation of frame f (f.e or f.steps, f.directions), having sent the
\* directions request f.dir_request: computed from the tables and the
\* answers alone, stage by stage (a set, the sorts leaving rows of equal
\* key in any order).
C_Alone(f) ==
    LET tables == C_Tables(f)
        cols == [k \in 1..3 |-> HarmonizedColumns(tables[k].columns)]
        bad == {k \in 1..3 : MissingCoordinate(cols[k])}
        src == GeoDataFrame(tables[1])
        fin == GeoDataFrame(tables[2])
        dst == GeoDataFrame(tables[3])
        extras == f.directions.extras
        details == IF extras = <<>> THEN <<>> ELSE extras[1].values
        fails(x) == {[raised |-> x, result |-> <<>>]}
    IN  IF bad # {}
        THEN fails(Exception("AttributeError",
                             MissingAttribute(
                                 cols[CHOOSE x \in bad : \A y \in bad : x <= y]),
                             NoMessage))
        ELSE IF f.e # NoError
        THEN fails(Classify(f.e, C_Lookup(f, src, fin, dst)))
        ELSE IF SelectSeq(f.steps, HasJob) = <<>>
        THEN fails(Exception("KeyError", "distance", NoMessage))
        ELSE IF ~HasColumn(JoinedColumns(dst), f.input_dest_id_field)
        THEN fails(Exception("KeyError", f.input_dest_id_field, NoMessage))
        ELSE IF C_DirectionsRaised(f)
        THEN fails(f.raised)
        ELSE IF extras = <<>>
        THEN fails(Exception("KeyError", "extras", NoMessage))
        ELSE IF extras[1].summary = <<>>
        THEN fails(Exception("KeyError", "value", NoMessage))
        ELSE UNION
             {{[raised |-> NoError,
                result |->
                    <<[route_detailed |->
                           RouteDetailed(
                               AddRoadSurfaceId(f.directions.coordinates,
                                                details)),
                       source |-> src,
                       final_stop |-> fin,
                       destinations |-> dests,
                       route_segments |->
                           NamedSegments(RouteSegments(locs),
                                         DestNames(dests)),
                       input_dest_id_field |-> f.input_dest_id_field]>>] :
                  dests \in OrderedDestinations(dst, seq,
                                                f.input_dest_id_field)} :
              seq \in JobSequences(f.steps),
              locs \in {l \in Locations(f.steps) :
                           f.dir_request = DirectionsRequest(OrderedCoords(l))}}

\* what the services answered the invocation of frame f, they answered to
\* the requests a run alone on its tables makes: the steps are of its
\* vehicle and its jobs, the request for directions carries its ordered
\* coordinates, and the path answers that request
C_OwnAnswers(f) ==
    LET tables == C_Tables(f)
        src == GeoDataFrame(tables[1])
        fin == GeoDataFrame(tables[2])
        dst == GeoDataFrame(tables[3])
        sent == {OrderedCoords(l) : l \in Locations(f.steps)}
    IN  /\ f.steps # <<>>
           => f.steps \in Responses(Vehicle(src.geometry[1], fin.geometry[1]),
                                    Jobs(dst.geometry))
        /\ f.dir_requests = 1
           => \E coords \in sent : f.dir_request = DirectionsRequest(coords)
        /\ f.directions # <<>>
           => f.directions \in PipelineDirections(f.dir_request.coordinates)
        /\ C_DirectionsRaised(f) => f.raised \in DirectionsErrors

\* the outcome of the invocation of frame f, once it has returned or
\* failed, is that of a run alone
C_AsAlone(f) ==
    C_Finished(f)
    => /\ C_OwnAnswers(f)
       /\ [raised |-> f.raised, result |-> f.result] \in C_Alone(f)

(* C19. Two invocations of optimal_route that run concurrently on          *)
(* different requests do not interfere: under every interleaving of their  *)
(* stages each one returns, or fails with, exactly what optimal_route run  *)
(* alone on its tables returns or fails with when the services give it the *)
(* same answers, whatever the other one has done meanwhile and whatever    *)
(* request the client of the module, which both call, has served last;     *)
(* and the client is the one made at import, with its key.                 *)
C19_NoInterference ==
    /\ ors_client.key = ors_api_key
    /\ C_AsAlone(Frame)
    /\ peer # <<>> => C_AsAlone(peer.frame)

\* the first invocation has returned its outputs after the second one,
\* which now waits, made its optimization request: the request the client
\* served last is the second one's
C19_Witness ==
    /\ peer # <<>>
    /\ peer.invocation = 2
    /\ peer.frame.pc = "optimized"
    /\ pc = "returned"
    /\ result # <<>>
    /\ Len(result[1].destinations) = 2
    /\ ors_client.req = OptimizationRequest(peer.frame.jobs, peer.frame.vehicle)
    /\ ors_client.req # dir_request

-----------------------------------------------------------------------------
(* What the claims on the directions request speak of *)

\* the directions request of this invocation has failed
C_DirectionsFailed == pc = "failed" /\ dir_requests = 1 /\ directions = <<>>

\* the errors of the directions service: an error response of the service
\* whatever its text, or a failure of the transport
C_DirectionsServiceError(x) ==
    \/ x.type = "ApiError" /\ x.name = ""
    \/ x = Timeout

(* C21. When the directions request fails, optimal_route fails with the    *)
(* error of the directions service unchanged: it is never replaced by the  *)
(* 'Unroutable Location' ValueError that names a submitted point, even     *)
(* when its text names the coordinate of one.                              *)
C21_DirectionsErrorUnchanged ==
    C_DirectionsFailed
    => /\ C_DirectionsServiceError(raised)
       /\ raised.type # "ValueError"
       /\ e = NoError
       /\ result = <<>>

\* the directions service names the coordinate of the source as unroutable
C21_Witness ==
    /\ C_DirectionsFailed
    /\ raised.type = "ApiError"
    /\ raised.message.routable
    /\ raised.message.coordinate = <<C_Point(input_source.rows[1])>>

-----------------------------------------------------------------------------
(* What the claims on the segmentation speak of *)

\* the label of a surface code
C_LabelOfCode(code) ==
    IF \E p \in C_Enumeration : p[1] = code
    THEN (CHOOSE p \in C_Enumeration : p[1] = code)[2]
    ELSE "Unknown"

\* range k of the response contains elementary segment i, both ends included
C_Contains(k, i) == C_Ranges[k][1] <= i /\ i <= C_Ranges[k][2]

(* C22. Elementary segment i (from coordinate i to coordinate i+1) gets    *)
(* the surface of the range (start, end, code) with start <= i <= end,     *)
(* both ends inclusive; when several ranges contain i, the range that      *)
(* comes last in the list of the service wins.                             *)
C22_InclusiveRangesLastWins ==
    C_Returned
    => \A i \in 0..(Len(C_Segments) - 1) :
          \A k \in DOMAIN C_Ranges :
             (/\ C_Contains(k, i)
              /\ \A j \in DOMAIN C_Ranges : j > k => ~C_Contains(j, i))
             => C_SurfaceOf(i) = C_LabelOfCode(C_Ranges[k][3])

\* two ranges that share coordinate 1, the second ending on the last
\* coordinate: segment 1 takes the later range, segment 2 its end
C22_Witness ==
    /\ C_Returned
    /\ C_Ranges = <<(<<0, 1, 3>>), (<<1, 2, 10>>)>>
    /\ Len(C_Segments) = 3
    /\ C_SurfaceOf(0) = "Asphalt"
    /\ C_SurfaceOf(1) = "Gravel"
    /\ C_SurfaceOf(2) = "Gravel"

\* the coordinates of the path the directions service returned
C_Path == directions.coordinates

\* the segments split_line made of the path (lines 177-186)
C_Split == gdf

\* a coordinate of the path, in nanodegrees
C_Nanodegrees(point) == <<10000 * point[1], 10000 * point[2]>>

\* two places less than 1e-6 degree apart in longitude and in latitude
C_Near(p, q) == Abs(p[1] - q[1]) < 1000 /\ Abs(p[2] - q[2]) < 1000

(* C23. A path of n >= 2 coordinates is decomposed into exactly n - 1      *)
(* two-point segments in route order, segment i running from coordinate i  *)
(* to coordinate i+1: the end of each segment is the start of the next,    *)
(* and the segments put end to end give the path back.  The segments       *)
(* returned are these, in this order, after the projection and back: each  *)
(* end point less than 1e-6 degree from the coordinate of the path, and    *)
(* the end of each still the start of the next.                            *)
C23_SegmentsOfThePath ==
    (C_Returned /\ Len(C_Path) >= 2)
    => /\ Len(C_Split) = Len(C_Path) - 1
       /\ \A i \in DOMAIN C_Split :
            /\ Len(C_Split[i].geometry) = 2
            /\ C_Split[i].geometry[1] = C_Path[i]
            /\ C_Split[i].geometry[2] = C_Path[i + 1]
       /\ \A i \in 1..(Len(C_Split) - 1) :
            C_Split[i].geometry[2] = C_Split[i + 1].geometry[1]
       /\ <<C_Split[1].geometry[1]>>
             \o [i \in DOMAIN C_Split |-> C_Split[i].geometry[2]] = C_Path
       /\ Len(C_Segments) = Len(C_Split)
       /\ \A i \in DOMAIN C_Segments :
            /\ Len(C_Segments[i].geometry) = 2
            /\ C_Near(C_Segments[i].geometry[1], C_Nanodegrees(C_Path[i]))
            /\ C_Near(C_Segments[i].geometry[2], C_Nanodegrees(C_Path[i + 1]))
       /\ \A i \in 1..(Len(C_Segments) - 1) :
            C_Segments[i].geometry[2] = C_Segments[i + 1].geometry[1]

\* the path of 21 coordinates, split into 20 segments and returned as 20
C23_Witness ==
    /\ C_Returned
    /\ Len(C_Path) = 21
    /\ Len(C_Split) = 20
    /\ C_Split[20].geometry = <<C_Path[20], C_Path[21]>>
    /\ Len(C_Segments) = 20
    /\ C_Near(C_Segments[20].geometry[2], C_Nanodegrees(C_Path[21]))

\* the directions request of this invocation has been sent
C_Requested == dir_request # <<>>

\* the coordinates it carried
C_Sent == dir_request.coordinates

\* the coordinates are the locations of the steps in ascending order of
\* cumulative distance, the start location first and the end location last
C_AsVisited(coords) ==
    /\ Len(coords) = Cardinality(C_JobSteps) + 2
    /\ Len(coords) = Len(steps)
    /\ \A p \in DOMAIN coords :
         \E i \in DOMAIN steps :
            /\ steps[i].location = coords[p]
            /\ steps[i].distance = C_Nth(p)
    /\ \A i \in DOMAIN steps :
         /\ steps[i].type = "start" => coords[1] = steps[i].location
         /\ steps[i].type = "end" => coords[Len(coords)] = steps[i].location

C_Optimized == opt_requests = 1 /\ e = NoError /\ steps # <<>>

(* C25. The directions request is issued only after the optimization       *)
(* request has returned successfully; if the optimization request fails,   *)
(* classified or not, no directions request is ever issued; and the two    *)
(* requests never overlap: no step issues both, and the directions         *)
(* request is issued from a state in which the optimization has answered.  *)
C25_DirectionsAfterOptimization ==
    /\ [](dir_requests > 0 => C_Optimized)
    /\ [](e # NoError => dir_requests = 0 /\ dir_request = <<>>)
    /\ [][dir_requests' # dir_requests
          => /\ C_Optimized
             /\ opt_requests' = opt_requests
             /\ steps' = steps]_vars
    /\ [][opt_requests' # opt_requests => dir_requests' = dir_requests]_vars

\* the optimization answered, then the directions request was issued
C25_Witness ==
    /\ pc = "directed"
    /\ C_Optimized
    /\ dir_requests = 1
    /\ C_Requested

-----------------------------------------------------------------------------
(* What the claim on the point an error names speaks of *)

\* the submitted points in the lookup order: the source, the final stop,
\* the destinations in input row order, each with the names it may go by
C_LookupOrder ==
    <<[point |-> C_Point(input_source.rows[1]),
       names |-> {input_source.rows[1][3], "Starting point"}],
      [point |-> C_Point(input_final_stop.rows[1]),
       names |-> {input_final_stop.rows[1][3], "Final stop"}]>>
    \o [r \in DOMAIN input_destinations.rows |->
          [point |-> C_Point(input_destinations.rows[r]),
           names |-> {input_destinations.rows[r][3], "Unnamed Destination"}]]

\* the places in the lookup order of the points within 0.0001 degree of the
\* coordinate of the error message
C_NearInOrder ==
    {k \in DOMAIN C_LookupOrder :
        C_Within(C_LookupOrder[k].point, C_Parsed(e.message)[1])}

(* C26. When several submitted points lie within 0.0001 degree of the      *)
(* parsed error coordinate on both axes, the 'Unroutable Location' error   *)
(* names the first of them in the lookup order source, final stop,         *)
(* destinations in input row order: when the source shares its location    *)
(* with a destination or the final stop, the source is the one named.      *)
C26_FirstNearPointIsNamed ==
    (/\ C_CallFailed
     /\ C_Parsed(e.message) # <<>>
     /\ C_NearInOrder # {})
    => LET first == CHOOSE k \in C_NearInOrder : \A j \in C_NearInOrder : k <= j
       IN  /\ raised.type = "ValueError"
           /\ raised.name \in C_LookupOrder[first].names

\* the source, the final stop and a destination are at one place, which the
\* message names: the source is the one the error names
C26_Witness ==
    /\ C_CallFailed
    /\ C_Parsed(e.message) # <<>>
    /\ Cardinality(C_NearInOrder) >= 3
    /\ {1, 2} \subseteq C_NearInOrder
    /\ C_Point(input_source.rows[1]) = C_Point(input_final_stop.rows[1])
    /\ \E r \in DOMAIN input_destinations.rows :
          C_Point(input_destinations.rows[r]) = C_Point(input_source.rows[1])
    /\ raised.type = "ValueError"
    /\ raised.name \in {"Depot", "Starting point"}

-----------------------------------------------------------------------------
(* What the claim on the two numberings speaks of *)

\* the step list is one start step, then job steps, then one end step
C_StartJobsEnd ==
    /\ Len(steps) >= 2
    /\ steps[1].type = "start" /\ steps[1].job = <<>>
    /\ steps[Len(steps)].type = "end" /\ steps[Len(steps)].job = <<>>
    /\ \A i \in 2..(Len(steps) - 1) : steps[i].type = "job" /\ steps[i].job # <<>>

\* the numbers N of the generic labels 'destination N' of the locations
C_LabelNumbers ==
    {n \in 0..(Len(steps) + 1) :
        \E q \in DOMAIN locations : locations[q].name = <<"destination ">> \o Digits(n)}

(* C27. For every step list made of one start step, K job steps and one    *)
(* end step, the number N of the generic label 'destination N' a job step  *)
(* gets among the locations (from its position in the full step list) is   *)
(* the rank the same job gets in the job sequence (from its position among *)
(* the job steps): the labels carry exactly the ranks, and the label of    *)
(* rank N is on the place and the distance of the job ranked N.            *)
C27_LabelNumberIsRank ==
    (C_Sequenced /\ C_StartJobsEnd)
    => /\ C_LabelNumbers = {job_sequence[p].rank : p \in DOMAIN job_sequence}
       /\ \A i \in C_JobSteps :
            \A p \in DOMAIN job_sequence :
               job_sequence[p].job = steps[i].job[1]
               => /\ job_sequence[p].rank = i - 1
                  /\ \E q \in DOMAIN locations :
                       /\ locations[q].name
                              = <<"destination ">> \o Digits(job_sequence[p].rank)
                       /\ locations[q].location = steps[i].location
                       /\ locations[q].distance = steps[i].distance

\* the example: job 2 is visited first, labelled 'destination 1' and ranked 1
C27_Witness ==
    /\ C_Sequenced
    /\ C_Example
    /\ C_StartJobsEnd
    /\ locations[2].name = <<"destination ", "1">>
    /\ locations[2].location = C_Point(input_destinations.rows[2])
    /\ job_sequence[1].job = 2
    /\ job_sequence[1].rank = 1

-----------------------------------------------------------------------------
(* src/routing_app_v3.py: the session of the application.  The handlers of *)
(* a session run one at a time, each to its end.  'pc' is "idle" while no  *)
(* call of optimal_route is under way.                                     *)

\* what the handlers of the page leave alone: the invocation of optimal_route
route_vars == <<pc, input_source, input_final_stop, input_destinations,
                input_dest_id_field, source, final_stop, destinations,
                vehicle, jobs, all_points_for_lookup, e, raised, steps,
                job_sequence, locations, ordered_coords, route_segments,
                dest_names, opt_requests, dir_requests, dir_request,
                directions, gdf, route_detailed, result, surface_stats,
                table_html, peer, ors_client>>

\* no invocation: the locals of a call are gone when it has returned
IdleFrame == [StartFrame(<<>>, <<>>, <<>>, <<>>) EXCEPT !.pc = "idle"]

\* a session that has just begun
InitApp ==
    /\ ServerStart
    /\ Running(IdleFrame)
    /\ surface_stats = <<>>
    /\ table_html = <<>>
    /\ peer = <<>>
    /\ ors_client = Client(ors_api_key)

\* lines 105-115: the radio buttons of the input method
InputMethods == {"select", "upload", "map_click"}

\* The radio buttons are changed.  input_controls and
\* destination_selection_panel (lines 181-255) read input.input_method(),
\* so both are rendered anew; until the browser has made the inputs of the
\* new controls and reported them, the session holds for every input the
\* value it had, and the handlers read these values.
SetInputMethod ==
    /\ pc = "idle"
    /\ modal = "none"
    /\ \E m \in InputMethods \ {input_method} : input_method' = m
    /\ rendered' = FALSE
    /\ UNCHANGED <<uploaded_files, dest_id_field, selected_destinations,
                   stored_result, map_click_mode, map_clicked_points,
                   source_select, final_stop_select, category_filter,
                   destination_search, map_clicked_coords, modal>>
    /\ UNCHANGED route_vars

\* what the browser may report for the select 'dest_id_field' it has made
\* anew: the one choice it is created with (line 190) or, when a
\* destinations file has been uploaded, the first of the choices the effect
\* of lines 561-570 sends after it
RenderedIdFields ==
    {"Select field..."}
    \cup (IF uploaded_files.destinations = None THEN {}
          ELSE {uploaded_files.destinations.columns[1]})

\* The browser reports the inputs of the controls rendered for the method.
\* Those of the method 'select' (lines 213-228, 240-244) are created
\* without a selected value, and each is reported as ''; the select of the
\* identifier field of the method 'upload' is reported with its choice, and
\* the effect of lines 556-559 stores it; the file inputs are reported
\* empty, which the handlers of lines 528-554 ignore, and the buttons of
\* the method 'map_click' at 0, which starts no handler.
RenderInputControls ==
    /\ pc = "idle"
    /\ ~rendered
    /\ rendered' = TRUE
    /\ IF input_method = "select"
       THEN /\ source_select' = <<>>
            /\ final_stop_select' = <<>>
            /\ category_filter' = <<>>
            /\ destination_search' = <<>>
            /\ UNCHANGED dest_id_field
       ELSE IF input_method = "upload"
       THEN /\ \E c \in RenderedIdFields : dest_id_field' = <<c>>
            /\ UNCHANGED <<source_select, final_stop_select, category_filter,
                           destination_search>>
       ELSE UNCHANGED <<dest_id_field, source_select, final_stop_select,
                        category_filter, destination_search>>
    /\ UNCHANGED <<input_method, uploaded_files, selected_destinations,
                   stored_result, map_click_mode, map_clicked_points,
                   map_clicked_coords, modal>>
    /\ UNCHANGED route_vars

-----------------------------------------------------------------------------
(* Lines 403-504: the points set by clicking on the map.  A clicked        *)
(* position is [lat, lng] (the timestamp of the click is left out), a      *)
(* saved point [name, latitude, longitude].  The buttons of the mode and   *)
(* the map are on the page of the input method 'map_click' (lines 192-204, *)
(* 810-823); a dialog takes the clicks of the page while it is open.       *)

\* the most destinations the model saves
MaxClicked == 2

\* where the model clicks
ClickedCoords ==
    {[lat |-> 0, lng |-> 0], [lat |-> 300, lng |-> 5], [lat |-> 0, lng |-> 10]}

\* what the model types in the dialog ("": nothing)
TypedNames == {"", "Camp"}

ClickModes == {"none", "source", "final", "destination"}

\* the buttons of the page can be pressed
PageShown ==
    pc = "idle" /\ modal = "none" /\ input_method = "map_click" /\ rendered

\* a mutant of ModeAfterSave: the mode is reset after every save
ModeAfterSave_reset(mode, kind) == "none"

\* the mode a save leaves: lines 474 and 488 set it back, lines 494-504 do not
ModeAfterSave(mode, kind) == IF kind = "destination" THEN mode ELSE "none"

\* lines 404-407
SetSourceMode ==
    /\ PageShown
    /\ map_click_mode' = "source"
    /\ UNCHANGED <<input_method, rendered, uploaded_files, dest_id_field,
                   selected_destinations, stored_result, map_clicked_points,
                   source_select, final_stop_select, category_filter,
                   destination_search, map_clicked_coords, modal>>
    /\ UNCHANGED route_vars

\* lines 410-413
SetFinalMode ==
    /\ PageShown
    /\ map_click_mode' = "final"
    /\ UNCHANGED <<input_method, rendered, uploaded_files, dest_id_field,
                   selected_destinations, stored_result, map_clicked_points,
                   source_select, final_stop_select, category_filter,
                   destination_search, map_clicked_coords, modal>>
    /\ UNCHANGED route_vars

\* lines 416-419
SetDestMode ==
    /\ PageShown
    /\ map_click_mode' = "destination"
    /\ UNCHANGED <<input_method, rendered, uploaded_files, dest_id_field,
                   selected_destinations, stored_result, map_clicked_points,
                   source_select, final_stop_select, category_filter,
                   destination_search, map_clicked_coords, modal>>
    /\ UNCHANGED route_vars

\* lines 422-426
ClearMapPoints ==
    /\ PageShown
    /\ map_clicked_points' = [source |-> None, final_stop |-> None,
                              destinations |-> <<>>]
    /\ map_click_mode' = "none"
    /\ UNCHANGED <<input_method, rendered, uploaded_files, dest_id_field,
                   selected_destinations, stored_result, source_select,
                   final_stop_select, category_filter, destination_search,
                   map_clicked_coords, modal>>
    /\ UNCHANGED route_vars

\* the dialog lines 437-461 show in a mode
DialogOf(mode) == mode

\* lines 429-462: a click on the map
MapClick ==
    /\ PageShown
    /\ \E coords \in ClickedCoords :
          /\ map_clicked_coords' = coords
          /\ modal' = IF map_click_mode = "none" THEN modal
                      ELSE DialogOf(map_click_mode)
    /\ UNCHANGED <<input_method, rendered, uploaded_files, dest_id_field,
                   selected_destinations, stored_result, map_click_mode,
                   map_clicked_points, source_select, final_stop_select,
                   category_filter, destination_search>>
    /\ UNCHANGED route_vars

\* ui.modal_button and easy_close: the dialog is dismissed, and what it
\* showed with it
CancelDialog ==
    /\ pc = "idle"
    /\ modal # "none"
    /\ modal' = "none"
    /\ surface_stats' = <<>>
    /\ table_html' = <<>>
    /\ UNCHANGED <<input_method, rendered, uploaded_files, dest_id_field,
                   selected_destinations, stored_result, map_click_mode,
                   map_clicked_points, source_select, final_stop_select,
                   category_filter, destination_search, map_clicked_coords>>
    /\ UNCHANGED call_vars

\* input.point_name_input() or default
NameOr(typed, default) == IF typed = "" THEN default ELSE typed

\* {'name': name, 'latitude': coords['lat'], 'longitude': coords['lng']}
SavedPoint(name, coords) ==
    [name |-> name, latitude |-> coords.lat, longitude |-> coords.lng]

\* f"Destination {n}"
DestinationName(n) ==
    <<"Destination 1", "Destination 2", "Destination 3", "Destination 4",
      "Destination 5", "Destination 6">>[n]

\* lines 465-477
SaveSourcePoint ==
    /\ pc = "idle"
    /\ modal = "source"
    /\ \E typed \in TypedNames :
          IF map_clicked_coords # None
          THEN /\ map_clicked_points' =
                      [map_clicked_points EXCEPT
                          !.source = SavedPoint(NameOr(typed, "Starting Point"),
                                                map_clicked_coords)]
               /\ map_click_mode' = ModeAfterSave(map_click_mode, "source")
               /\ modal' = "none"
          ELSE UNCHANGED <<map_clicked_points, map_click_mode, modal>>
    /\ UNCHANGED <<input_method, rendered, uploaded_files, dest_id_field,
                   selected_destinations, stored_result, source_select,
                   final_stop_select, category_filter, destination_search,
                   map_clicked_coords>>
    /\ UNCHANGED route_vars

\* lines 479-491
SaveFinalPoint ==
    /\ pc = "idle"
    /\ modal = "final"
    /\ \E typed \in TypedNames :
          IF map_clicked_coords # None
          THEN /\ map_clicked_points' =
                      [map_clicked_points EXCEPT
                          !.final_stop = SavedPoint(NameOr(typed, "Final Stop"),
                                                    map_clicked_coords)]
               /\ map_click_mode' = ModeAfterSave(map_click_mode, "final")
               /\ modal' = "none"
          ELSE UNCHANGED <<map_clicked_points, map_click_mode, modal>>
    /\ UNCHANGED <<input_method, rendered, uploaded_files, dest_id_field,
                   selected_destinations, stored_result, source_select,
                   final_stop_select, category_filter, destination_search,
                   map_clicked_coords>>
    /\ UNCHANGED route_vars

\* lines 493-504
SaveDestPoint ==
    /\ pc = "idle"
    /\ modal = "destination"
    /\ Len(map_clicked_points.destinations) < MaxClicked
    /\ \E typed \in TypedNames :
          LET default ==
                  DestinationName(Len(map_clicked_points.destinations) + 1)
          IN  IF map_clicked_coords # None
              THEN /\ map_clicked_points' =
                          [map_clicked_points EXCEPT
                              !.destinations =
                                  Append(@, SavedPoint(NameOr(typed, default),
                                                       map_clicked_coords))]
                   /\ map_click_mode' =
                          ModeAfterSave(map_click_mode, "destination")
                   /\ modal' = "none"
              ELSE UNCHANGED <<map_clicked_points, map_click_mode, modal>>
    /\ UNCHANGED <<input_method, rendered, uploaded_files, dest_id_field,
                   selected_destinations, stored_result, source_select,
                   final_stop_select, category_filter, destination_search,
                   map_clicked_coords>>
    /\ UNCHANGED route_vars

NextClick ==
    \/ SetInputMethod
    \/ RenderInputControls
    \/ SetSourceMode
    \/ SetFinalMode
    \/ SetDestMode
    \/ ClearMapPoints
    \/ MapClick
    \/ CancelDialog
    \/ SaveSourcePoint
    \/ SaveFinalPoint
    \/ SaveDestPoint

SpecClick == InitApp /\ [][NextClick]_vars

-----------------------------------------------------------------------------
(* C29 *)

\* the points saved so far, as the claim names them
C_SavedSource == map_clicked_points.source
C_SavedFinalStop == map_clicked_points.final_stop
C_SavedDestinations == map_clicked_points.destinations

\* no point is saved and the mode is "none"
C_Cleared ==
    /\ C_SavedSource = None
    /\ C_SavedFinalStop = None
    /\ C_SavedDestinations = <<>>
    /\ map_click_mode = "none"

\* a step that saves one more destination and nothing else
C_OneMoreDestination ==
    /\ Len(C_SavedDestinations') = Len(C_SavedDestinations) + 1
    /\ SubSeq(C_SavedDestinations', 1, Len(C_SavedDestinations))
           = C_SavedDestinations
    /\ C_SavedSource' = C_SavedSource
    /\ C_SavedFinalStop' = C_SavedFinalStop

\* C29: the map-click mode is always one of none, source, final and
\* destination; a click on the map while the mode is none saves no point
\* and opens no dialog; saving a starting point or a final stop sets the
\* mode to none; saving a destination leaves the mode at destination and
\* appends exactly one destination; 'Clear All Points' resets the starting
\* point, the final stop, the destinations and the mode together.
C29_ClickModeProtocol ==
    /\ [](map_click_mode \in ClickModes)
    /\ [][(MapClick /\ map_click_mode = "none")
             => /\ map_clicked_points' = map_clicked_points
                /\ modal' = "none"
                /\ map_click_mode' = "none"]_vars
    /\ [][SaveSourcePoint
             => /\ map_click_mode' = "none"
                /\ C_SavedSource' # None
                /\ C_SavedDestinations' = C_SavedDestinations]_vars
    /\ [][SaveFinalPoint
             => /\ map_click_mode' = "none"
                /\ C_SavedFinalStop' # None
                /\ C_SavedDestinations' = C_SavedDestinations]_vars
    /\ [][SaveDestPoint
             => /\ map_click_mode = "destination"
                /\ map_click_mode' = "destination"
                /\ C_OneMoreDestination]_vars
    /\ [][ClearMapPoints => C_Cleared']_vars

\* both end points are saved, and so are two destinations, one after the
\* other without the mode being set again
C29_Witness ==
    /\ C_SavedSource # None
    /\ C_SavedFinalStop # None
    /\ Len(C_SavedDestinations) = 2
    /\ map_click_mode = "destination"
    /\ modal = "none"

-----------------------------------------------------------------------------
(* Lines 28-44, 257-305: the destinations of the database and the          *)
(* selection kept across the filters.  A row of the database is            *)
(* [name, latitude, longitude, category]; its index label is its 0-based   *)
(* position, and the key of its checkbox is str(idx).                      *)

destinations_db ==
    <<[name |-> "Lake Kivu", latitude |-> 0, longitude |-> 0,
       category |-> "lake"],
      [name |-> "Lake Ihema", latitude |-> 5, longitude |-> 5,
       category |-> "lake"],
      [name |-> "Mount Kigali", latitude |-> 300, longitude |-> 5,
       category |-> "mountain"]>>

\* the tokens a name is written with
Text(name) ==
    CASE name = "Lake Kivu"    -> <<"Lake ", "Kivu">>
      [] name = "Lake Ihema"   -> <<"Lake ", "Ihema">>
      [] name = "Mount Kigali" -> <<"Mount ", "Kigali">>
      [] OTHER                 -> <<name>>

\* case=False: the token without its case
CaseFold(token) ==
    CASE token = "Lake "  -> "lake "
      [] token = "Kivu"   -> "kivu"
      [] token = "KIVU"   -> "kivu"
      [] token = "Ihema"  -> "ihema"
      [] token = "Mount " -> "mount "
      [] token = "Kigali" -> "kigali"
      [] OTHER            -> token

\* str.contains(term, case=False) for a term of plain characters
Contains(text, term) ==
    \E i \in 0..(Len(text) - Len(term)) :
        \A j \in DOMAIN term : CaseFold(text[i + j]) = CaseFold(term[j])

\* the categories and the search terms the model enters (<<>>: none)
Categories == {<<>>, <<"lake">>, <<"mountain">>}
SearchTerms == {<<>>, <<"lake ">>, <<"KIVU">>}

\* str(idx)
Key(idx) == Digits(idx)

\* int(idx_str)
IndexOfKey(key) == CHOOSE idx \in 0..(Len(destinations_db) - 1) : Key(idx) = key

\* lines 266-279: the rows the filters leave, as the keys of their boxes
CurrentView(category, search) ==
    LET shown(k) ==
            /\ category # <<>> => destinations_db[k].category = category[1]
            /\ search # <<>> => Contains(Text(destinations_db[k].name), search)
        kept == SelectSeq([k \in DOMAIN destinations_db |-> k], shown)
    IN  [i \in DOMAIN kept |-> Key(kept[i] - 1)]

\* list(dict.fromkeys(items)): the first occurrence of each item, in order
RECURSIVE WithoutDuplicates(_)
WithoutDuplicates(items) ==
    IF items = <<>> THEN <<>>
    ELSE LET rest == WithoutDuplicates(SubSeq(items, 1, Len(items) - 1))
             last == items[Len(items)]
         IN  IF last \in Range(rest) THEN rest ELSE Append(rest, last)

\* a mutant of UpdatedSelections: the checked boxes replace the selection
UpdatedSelections_replaced(persistent, view, current) ==
    WithoutDuplicates(current)

\* lines 281-289: updated_selections
UpdatedSelections(persistent, view, current) ==
    WithoutDuplicates(
        SelectSeq(persistent, LAMBDA sel : sel \notin Range(view)) \o current)

\* the panel of lines 231-254 is on the page
PanelShown ==
    pc = "idle" /\ modal = "none" /\ input_method = "select" /\ rendered

\* the boxes that can be checked: any of the view, in the order of the page
CheckedBoxes(view) ==
    {SelectSeq(view, LAMBDA key : key \in chosen) : chosen \in SUBSET Range(view)}

\* the starting point and the final stop the model selects ('': none)
SourceKeys == {<<>>, <<Key(0)>>}
FinalStopKeys == {<<>>, <<Key(1)>>}

\* lines 213-217: the starting point is chosen
SetSourceSelect ==
    /\ PanelShown
    /\ \E key \in SourceKeys \ {source_select} : source_select' = key
    /\ UNCHANGED <<input_method, rendered, uploaded_files, dest_id_field,
                   selected_destinations, stored_result, map_click_mode,
                   map_clicked_points, final_stop_select, category_filter,
                   destination_search, map_clicked_coords, modal>>
    /\ UNCHANGED route_vars

\* lines 218-222: the final stop is chosen
SetFinalStopSelect ==
    /\ PanelShown
    /\ \E key \in FinalStopKeys \ {final_stop_select} :
          final_stop_select' = key
    /\ UNCHANGED <<input_method, rendered, uploaded_files, dest_id_field,
                   selected_destinations, stored_result, map_click_mode,
                   map_clicked_points, source_select, category_filter,
                   destination_search, map_clicked_coords, modal>>
    /\ UNCHANGED route_vars

\* lines 224-228: the category is chosen
SetCategoryFilter ==
    /\ PanelShown
    /\ \E c \in Categories \ {category_filter} : category_filter' = c
    /\ UNCHANGED <<input_method, rendered, uploaded_files, dest_id_field,
                   selected_destinations, stored_result, map_click_mode,
                   map_clicked_points, source_select, final_stop_select,
                   destination_search, map_clicked_coords, modal>>
    /\ UNCHANGED route_vars

\* lines 240-244: the search term is typed
SetDestinationSearch ==
    /\ PanelShown
    /\ \E t \in SearchTerms \ {destination_search} : destination_search' = t
    /\ UNCHANGED <<input_method, rendered, uploaded_files, dest_id_field,
                   selected_destinations, stored_result, map_click_mode,
                   map_clicked_points, source_select, final_stop_select,
                   category_filter, map_clicked_coords, modal>>
    /\ UNCHANGED route_vars

\* lines 257-293: the boxes of the view change
CheckboxChange ==
    /\ PanelShown
    /\ LET view == CurrentView(category_filter, destination_search)
       IN  \E current \in CheckedBoxes(view) :
              selected_destinations' =
                  UpdatedSelections(selected_destinations, view, current)
    /\ UNCHANGED <<input_method, rendered, uploaded_files, dest_id_field,
                   stored_result, map_click_mode, map_clicked_points,
                   source_select, final_stop_select, category_filter,
                   destination_search, map_clicked_coords, modal>>
    /\ UNCHANGED route_vars

\* lines 295-305: 'Clear All Selections'
ClearSelections ==
    /\ PanelShown
    /\ selected_destinations' = <<>>
    /\ UNCHANGED <<input_method, rendered, uploaded_files, dest_id_field,
                   stored_result, map_click_mode, map_clicked_points,
                   source_select, final_stop_select, category_filter,
                   destination_search, map_clicked_coords, modal>>
    /\ UNCHANGED route_vars

NextSelect ==
    \/ SetInputMethod
    \/ RenderInputControls
    \/ SetCategoryFilter
    \/ SetDestinationSearch
    \/ CheckboxChange
    \/ ClearSelections

SpecSelect == InitApp /\ [][NextSelect]_vars

-----------------------------------------------------------------------------
(* C30 *)

\* the boxes of the current view
C_View == CurrentView(category_filter, destination_search)

\* the selections the current filters hide, in their order
C_Hidden == SelectSeq(selected_destinations, LAMBDA sel : sel \notin Range(C_View))

C_NoDuplicates(items) ==
    \A i, j \in DOMAIN items : items[i] = items[j] => i = j

\* a checkbox event: the selection becomes the hidden selections followed
\* by the checked boxes of the view, each once
C_HiddenThenChecked ==
    /\ \E checked \in CheckedBoxes(C_View) :
          selected_destinations' = C_Hidden \o checked
    /\ C_NoDuplicates(selected_destinations')
    /\ \A sel \in Range(selected_destinations) :
          sel \notin Range(C_View) => sel \in Range(selected_destinations')

\* C30 as stated: after a checkbox event the selection is the previous
\* selections outside the filtered view followed by the boxes checked in the
\* view, without duplicates; no hidden selection is removed by a checkbox
\* event; and no checkbox event empties the list, only 'Clear All
\* Selections' does.
C30_OnlyClearEmpties ==
    /\ [][CheckboxChange => C_HiddenThenChecked]_vars
    /\ [][CheckboxChange =>
             (selected_destinations # <<>> => selected_destinations' # <<>>)]_vars
    /\ [][ClearSelections => selected_destinations' = <<>>]_vars

\* C30, amended: after a checkbox event the selection is the previous
\* selections outside the filtered view followed by the boxes checked in the
\* view, without duplicates; no hidden selection is removed by a checkbox
\* event; a checkbox event leaves the list empty only when no selection is
\* hidden and no box is checked; 'Clear All Selections' always empties it.
C30_HiddenSelectionsKept ==
    /\ [][CheckboxChange => C_HiddenThenChecked]_vars
    /\ [][CheckboxChange =>
             (selected_destinations' = <<>> => C_Hidden = <<>>)]_vars
    /\ [][(CheckboxChange /\ C_Hidden # <<>>) =>
             selected_destinations' # <<>>]_vars
    /\ [][ClearSelections => selected_destinations' = <<>>]_vars

\* under the category 'mountain' the selection is a hidden lake followed by
\* the mountain checked in the view
C30_Witness ==
    /\ category_filter = <<"mountain">>
    /\ destination_search = <<>>
    /\ selected_destinations = <<Key(0), Key(2)>>
    /\ C_Hidden = <<Key(0)>>

-----------------------------------------------------------------------------
(* Lines 527-560: the uploaded files and the identifier field *)

\* the files the model uploads, as pd.read_csv reads them
SourceFiles ==
    {[columns |-> <<"latitude", "longitude", "name">>,
      rows |-> <<Row(<<0, 0>>, "Depot")>>],
     [columns |-> <<"latitude", "longitude", "name">>, rows |-> <<>>]}

FinalStopFiles ==
    {[columns |-> <<"Lat", "LON", "name">>,
      rows |-> <<Row(<<10, 0>>, "Garage")>>]}

DestinationFiles ==
    {[columns |-> <<"Latitude", "Longitude", "Destination ID">>,
      rows |-> <<Row(<<5, 5>>, "A"), Row(<<5, 300>>, "B")>>],
     [columns |-> <<"y", "x", "Name">>,
      rows |-> <<Row(<<5, 300>>, "A")>>]}

\* df.columns.str.lower().str.replace(' ', '_')
LowerUnderscore(name) ==
    IF name = "Destination ID" THEN "destination_id" ELSE Lower(name)

\* lines 547-549: the columns of the destinations file as the session keeps
\* them, 'name' becoming 'name_dest'
UploadedColumns(columns) ==
    [i \in DOMAIN columns |->
        IF LowerUnderscore(columns[i]) = "name" THEN "name_dest"
        ELSE LowerUnderscore(columns[i])]

\* the upload controls of lines 186-191 are on the page
UploadShown ==
    pc = "idle" /\ modal = "none" /\ input_method = "upload" /\ rendered

\* lines 527-533
UploadSource ==
    /\ UploadShown
    /\ \E df \in SourceFiles :
          uploaded_files' = [uploaded_files EXCEPT !.source = df]
    /\ UNCHANGED <<input_method, rendered, dest_id_field, selected_destinations,
                   stored_result, map_click_mode, map_clicked_points,
                   source_select, final_stop_select, category_filter,
                   destination_search, map_clicked_coords, modal>>
    /\ UNCHANGED route_vars

\* lines 535-541
UploadFinalStop ==
    /\ UploadShown
    /\ \E df \in FinalStopFiles :
          uploaded_files' = [uploaded_files EXCEPT !.final_stop = df]
    /\ UNCHANGED <<input_method, rendered, dest_id_field, selected_destinations,
                   stored_result, map_click_mode, map_clicked_points,
                   source_select, final_stop_select, category_filter,
                   destination_search, map_clicked_coords, modal>>
    /\ UNCHANGED route_vars

\* lines 543-552
UploadDestinations ==
    /\ UploadShown
    /\ \E df \in DestinationFiles :
          uploaded_files' =
              [uploaded_files EXCEPT
                  !.destinations = [columns |-> UploadedColumns(df.columns),
                                    rows |-> df.rows]]
    /\ UNCHANGED <<input_method, rendered, dest_id_field, selected_destinations,
                   stored_result, map_click_mode, map_clicked_points,
                   source_select, final_stop_select, category_filter,
                   destination_search, map_clicked_coords, modal>>
    /\ UNCHANGED route_vars

\* dest_id_choices (line 552, and the choice of line 190 before any upload)
DestIdChoices ==
    IF uploaded_files.destinations = None THEN {"Select field..."}
    ELSE Range(uploaded_files.destinations.columns)

\* lines 554-557: the identifier field is chosen
SelectIdField ==
    /\ UploadShown
    /\ \E c \in DestIdChoices : dest_id_field' = <<c>>
    /\ UNCHANGED <<input_method, rendered, uploaded_files, selected_destinations,
                   stored_result, map_click_mode, map_clicked_points,
                   source_select, final_stop_select, category_filter,
                   destination_search, map_clicked_coords, modal>>
    /\ UNCHANGED route_vars

-----------------------------------------------------------------------------
(* Lines 572-653: the tables of the other two input methods.  What the     *)
(* three methods hand to optimal_route is <<[source, destinations,         *)
(* id_field, final_stop]>>, or None when something is missing.             *)

\* a coordinate of the database or of a click, as a point <<lon, lat>>
PointAt(latitude, longitude) == <<longitude, latitude>>

\* pd.DataFrame({'latitude': [..], 'longitude': [..], 'name': [..]})
EndPointTable(p) ==
    [columns |-> <<"latitude", "longitude", "name">>,
     rows |-> <<Row(PointAt(p.latitude, p.longitude), p.name)>>]

\* pd.DataFrame(dest_rows): latitude, longitude, name, destination_id
DestinationTable(ps) ==
    [columns |-> <<"latitude", "longitude", "name", "destination_id">>,
     rows |-> [i \in DOMAIN ps |->
                 Row(PointAt(ps[i].latitude, ps[i].longitude), ps[i].name)
                 \o <<ps[i].name>>]]

\* lines 655-668, 728-735: the uploaded tables, or None
UploadData ==
    LET files == uploaded_files
        provided(df) == df # None /\ df.rows # <<>>
    IN  IF /\ provided(files.source)
           /\ provided(files.final_stop)
           /\ provided(files.destinations)
           /\ dest_id_field # None
           /\ dest_id_field # <<"">>
        THEN <<[source |-> files.source,
                destinations |-> files.destinations,
                id_field |-> dest_id_field[1],
                final_stop |-> files.final_stop]>>
        ELSE None

\* lines 628-653: prepare_map_click_data
MapClickData ==
    LET points == map_clicked_points
    IN  IF \/ points.source = None
           \/ points.final_stop = None
           \/ points.destinations = <<>>
        THEN None
        ELSE <<[source |-> EndPointTable(points.source),
                destinations |-> DestinationTable(points.destinations),
                id_field |-> "destination_id",
                final_stop |-> EndPointTable(points.final_stop)]>>

\* lines 572-626: prepare_database_data
DatabaseData ==
    IF \/ source_select = <<>>
       \/ final_stop_select = <<>>
       \/ selected_destinations = <<>>
    THEN None
    ELSE LET row(key) == destinations_db[IndexOfKey(key) + 1]
         IN  <<[source |-> EndPointTable(row(source_select[1])),
                destinations |->
                    DestinationTable([i \in DOMAIN selected_destinations |->
                                         row(selected_destinations[i])]),
                id_field |-> "destination_id",
                final_stop |-> EndPointTable(row(final_stop_select[1]))]>>

\* the branch of lines 658-718 and 725-754 for an input method
PreparedData(method) ==
    IF method = "upload" THEN UploadData
    ELSE IF method = "map_click" THEN MapClickData
    ELSE DatabaseData

-----------------------------------------------------------------------------
(* Lines 655-764: 'Calculate Optimal Route'.  The handler of the button    *)
(* validates the inputs of the chosen method, calls optimal_route through  *)
(* calculate_optimal_route and stores what comes back.  The call runs in   *)
(* the stages of the pipeline above; no other handler of the session runs  *)
(* before the result is stored.                                            *)

\* an invocation begins, or ends, with the frame f
Invoke(f) ==
    /\ pc' = f.pc
    /\ input_source' = f.input_source
    /\ input_final_stop' = f.input_final_stop
    /\ input_destinations' = f.input_destinations
    /\ input_dest_id_field' = f.input_dest_id_field
    /\ source' = f.source
    /\ final_stop' = f.final_stop
    /\ destinations' = f.destinations
    /\ vehicle' = f.vehicle
    /\ jobs' = f.jobs
    /\ all_points_for_lookup' = f.all_points_for_lookup
    /\ e' = f.e
    /\ raised' = f.raised
    /\ steps' = f.steps
    /\ job_sequence' = f.job_sequence
    /\ locations' = f.locations
    /\ ordered_coords' = f.ordered_coords
    /\ route_segments' = f.route_segments
    /\ dest_names' = f.dest_names
    /\ opt_requests' = f.opt_requests
    /\ dir_requests' = f.dir_requests
    /\ dir_request' = f.dir_request
    /\ directions' = f.directions
    /\ gdf' = f.gdf
    /\ route_detailed' = f.route_detailed
    /\ result' = f.result

\* lines 722-758: the button is pressed; with inputs that do not validate
\* the handler returns after its warning
Press ==
    /\ pc = "idle"
    /\ modal = "none"
    /\ LET data == PreparedData(input_method)
       IN  IF data = None
           THEN UNCHANGED <<pc, input_source, input_final_stop,
                            input_destinations, input_dest_id_field, source,
                            final_stop, destinations, vehicle, jobs,
                            all_points_for_lookup, e, raised, steps,
                            job_sequence, locations, ordered_coords,
                            route_segments, dest_names, opt_requests,
                            dir_requests, dir_request, directions,
                            gdf, route_detailed, result>>
           ELSE Invoke(StartFrame(data[1].source, data[1].final_stop,
                                  data[1].destinations, data[1].id_field))
    /\ UNCHANGED <<surface_stats, table_html, peer, ors_client>>
    /\ UNCHANGED app_vars

\* a mutant of CalculatedResult: a failed call leaves the stored route
CalculatedResult_kept(returned, stored) ==
    IF returned = <<>> THEN stored
    ELSE [route_detailed |-> returned[1].route_detailed,
          source |-> returned[1].source,
          final_stop |-> returned[1].final_stop,
          destinations |-> returned[1].destinations,
          route_segments |-> returned[1].route_segments,
          used_id_field |-> returned[1].input_dest_id_field]

\* what calculate_optimal_route returns (lines 666-682): the dict of the six
\* outputs, or None when optimal_route raised
CalculatedResult(returned, stored) ==
    IF returned = <<>> THEN None
    ELSE [route_detailed |-> returned[1].route_detailed,
          source |-> returned[1].source,
          final_stop |-> returned[1].final_stop,
          destinations |-> returned[1].destinations,
          route_segments |-> returned[1].route_segments,
          used_id_field |-> returned[1].input_dest_id_field]

\* lines 758-764: optimal_route has returned or raised, and
\* result.set(calculated_result) runs
StoreResult ==
    /\ pc \in {"returned", "failed"}
    /\ stored_result' = CalculatedResult(result, stored_result)
    /\ Invoke(IdleFrame)
    /\ UNCHANGED <<surface_stats, table_html, peer, ors_client>>
    /\ UNCHANGED <<input_method, rendered, uploaded_files, dest_id_field,
                   selected_destinations, map_click_mode, map_clicked_points,
                   source_select, final_stop_select, category_filter,
                   destination_search, map_clicked_coords, modal>>

-----------------------------------------------------------------------------
(* Lines 941-1031: the two tables of the stored route, each shown in a     *)
(* dialog.  A number of the tables is in hundredths; [negative, hundredths] *)
(* is a number formatted with two decimals, <<>> is 'nan'.                 *)

\* f"{value:.2f}" of the double of a coordinate: the hundredth of a degree
\* nearest to the double, which for a coordinate midway between two
\* hundredths lies on one side of the middle, or is it (a tie to the even)
Fixed2(c) ==
    LET a == Abs(c)
        q == a \div 1000
        r == a % 1000
    IN  [negative |-> c < 0,
         hundredths |->
             IF r < 500 THEN q
             ELSE IF r > 500 THEN q + 1
             ELSE Of(LAMBDA by : IF by < 0 THEN q
                                 ELSE IF by > 0 THEN q + 1
                                 ELSE IF q % 2 = 0 THEN q ELSE q + 1,
                     Of(LAMBDA d : BigCompare(BigTimes(d.m, 200, 0),
                                              BigShift(Big(2 * q + 1), d.s)),
                        Double(a, 100000)))]

\* a cell of the column 'distance': the float is a number of hundredths
FixedDistance(distance) ==
    IF distance = <<>> THEN <<>>
    ELSE [negative |-> distance[1] < 0, hundredths |-> Abs(distance[1])]

\* a cell of a coordinate column
FixedCoordinate(location, axis) ==
    IF location = <<>> THEN <<>> ELSE Fixed2(location[axis])

\* lines 951-972: the columns of route_segments, and its rows with the
\* floats formatted
SegmentsHtml(segments) ==
    [header |-> <<"segment_name", "origin_lon", "origin_lat", "end_lon",
                  "end_lat", "distance">>,
     rows |-> [i \in DOMAIN segments |->
                 <<segments[i].segment_name,
                   FixedCoordinate(segments[i].origin, 1),
                   FixedCoordinate(segments[i].origin, 2),
                   FixedCoordinate(segments[i].end, 1),
                   FixedCoordinate(segments[i].end, 2),
                   FixedDistance(segments[i].distance)>>]]

\* lines 941-983: 'Show_Segments_Table' is pressed; with no stored route the
\* handler returns after its warning
ShowSegmentsTable ==
    /\ pc = "idle"
    /\ modal = "none"
    /\ IF stored_result = None
       THEN UNCHANGED <<table_html, modal>>
       ELSE /\ table_html' = SegmentsHtml(stored_result.route_segments)
            /\ modal' = "Route Segments"
    /\ UNCHANGED <<input_method, rendered, uploaded_files, dest_id_field,
                   selected_destinations, stored_result, map_click_mode,
                   map_clicked_points, source_select, final_stop_select,
                   category_filter, destination_search, map_clicked_coords>>
    /\ UNCHANGED surface_stats
    /\ UNCHANGED call_vars

\* lines 1005 and 1019: f"{total_length:.2f}", the summed length in
\* hundredths of a kilometre: the values the micrometres the sum may be off
\* allow
TotalShown(detailed) ==
    LET total == Sum([i \in DOMAIN detailed |-> detailed[i].segment_length],
                     Len(detailed))
        off   == Len(SelectSeq(detailed, LAMBDA g : g.segment_length > 0))
    IN  Of(LAMBDA w : w[1]..w[2],
           RoundedWithin(total - off, total + off, Hundredth, Hundredth, 0))

\* lines 1011-1019: the rows of surface_stats and the line of the total
StatisticsHtml(stats, total) ==
    [header |-> <<"Surface Type", "Length (km)", "Percentage">>,
     rows |-> [k \in DOMAIN stats |->
                 <<stats[k].surface, stats[k].total_length_km,
                   stats[k].percentage>>],
     total |-> total]

\* lines 985-1031: 'Show_Table' is pressed; with no stored route the handler
\* returns after its warning
ShowSurfaceStatistics ==
    /\ pc = "idle"
    /\ modal = "none"
    /\ IF stored_result = None
       THEN UNCHANGED <<surface_stats, table_html, modal>>
       ELSE /\ \E stats \in SurfaceStats(stored_result.route_detailed),
                  total \in TotalShown(stored_result.route_detailed) :
                   /\ surface_stats' = stats
                   /\ table_html' = StatisticsHtml(stats, total)
            /\ modal' = "Road Surface Statistics"
    /\ UNCHANGED <<input_method, rendered, uploaded_files, dest_id_field,
                   selected_destinations, stored_result, map_click_mode,
                   map_clicked_points, source_select, final_stop_select,
                   category_filter, destination_search, map_clicked_coords>>
    /\ UNCHANGED call_vars

\* points saved by clicking on the map, as the handlers of lines 465-504
\* leave them: none, or a destination, the starting point and the final
\* stop, saved in this order
ClickedPoints ==
    {[source |-> None, final_stop |-> None, destinations |-> <<>>],
     [source |-> SavedPoint("Starting Point", [lat |-> 0, lng |-> 0]),
      final_stop |-> SavedPoint("Camp", [lat |-> 0, lng |-> 10]),
      destinations |-> <<SavedPoint("Destination 1", [lat |-> 300, lng |-> 5])>>]}

\* selections of the database panel: nothing, or both ends and a destination
DatabaseSelections ==
    {[source_select |-> <<>>, final_stop_select |-> <<>>, selected |-> <<>>],
     [source_select |-> <<Key(0)>>, final_stop_select |-> <<Key(1)>>,
      selected |-> <<Key(2)>>]}

\* what the user has done before any press: nothing, or both clicked points
\* on the map and made selections in the database panel (a press reads
\* those of the current method only)
PressSessions ==
    {cs \in ClickedPoints \X DatabaseSelections :
        (cs[1].source = None) <=> (cs[2].source_select = <<>>)}

\* a session before any press
InitPress ==
    /\ input_method = "select"
    /\ rendered = TRUE
    /\ uploaded_files = [source |-> None, final_stop |-> None,
                         destinations |-> None]
    /\ dest_id_field = None
    /\ stored_result = None
    /\ map_click_mode = "none"
    /\ \E cs \in PressSessions :
          /\ map_clicked_points = cs[1]
          /\ source_select = cs[2].source_select
          /\ final_stop_select = cs[2].final_stop_select
          /\ selected_destinations = cs[2].selected
    /\ category_filter = <<>>
    /\ destination_search = <<>>
    /\ map_clicked_coords =
           IF map_clicked_points.source = None THEN None
           ELSE [lat |-> 0, lng |-> 10]
    /\ modal = "none"
    /\ Running(IdleFrame)
    /\ surface_stats = <<>>
    /\ table_html = <<>>
    /\ peer = <<>>
    /\ ors_client = Client(ors_api_key)

NextPress ==
    \/ SetInputMethod
    \/ RenderInputControls
    \/ SetSourceSelect
    \/ SetFinalStopSelect
    \/ UploadSource
    \/ UploadFinalStop
    \/ UploadDestinations
    \/ SelectIdField
    \/ Press
    \/ Normalize
    \/ BuildRequest
    \/ CallOptimization
    \/ VisitSequencer
    \/ CallDirections
    \/ SurfaceSegmenter
    \/ StoreResult
    \/ ShowSegmentsTable
    \/ ShowSurfaceStatistics
    \/ CancelDialog

SpecPress == InitPress /\ [][NextPress]_vars

\* the surface segmenter on its own, the result stored and its tables shown
NextSurface ==
    \/ SurfaceSegmenter
    \/ StoreResult
    \/ ShowSegmentsTable
    \/ ShowSurfaceStatistics
    \/ CancelDialog

SpecSurface == InitSurface /\ [][NextSurface]_vars

-----------------------------------------------------------------------------
(* C28 *)

\* a table the press handler takes as missing: None, or without rows
C_NoTable(df) == df = None \/ df.rows = <<>>

\* the inputs of the chosen method lack the source, the final stop, the
\* destinations or the identifier field
C_InputsMissing ==
    IF input_method = "upload"
    THEN \/ C_NoTable(uploaded_files.source)
         \/ C_NoTable(uploaded_files.final_stop)
         \/ C_NoTable(uploaded_files.destinations)
         \/ dest_id_field = None
    ELSE IF input_method = "map_click"
    THEN \/ C_SavedSource = None
         \/ C_SavedFinalStop = None
         \/ C_SavedDestinations = <<>>
    ELSE \/ source_select = <<>>
         \/ final_stop_select = <<>>
         \/ selected_destinations = <<>>

\* the six outputs of the call that has just returned
C_OutputsOfTheCall ==
    [route_detailed |-> route_detailed,
     source |-> source,
     final_stop |-> final_stop,
     destinations |-> destinations,
     route_segments |-> route_segments,
     used_id_field |-> input_dest_id_field]

\* r is None or has the six outputs of a call, the path segments being there
C_NoneOrComplete(r) ==
    \/ r = None
    \/ /\ DOMAIN r = {"route_detailed", "source", "final_stop",
                      "destinations", "route_segments", "used_id_field"}
       /\ r.route_detailed # <<>>
       /\ r.route_segments # <<>>
       /\ r.source # <<>>
       /\ r.final_stop # <<>>
       /\ r.destinations # <<>>

\* no call of optimal_route is under way and no request has been sent
C_NoCall == pc = "idle" /\ opt_requests = 0 /\ dir_requests = 0

\* C28: the stored result is always None or the complete output of a
\* successful call of optimal_route; whatever happens while the inputs of
\* the chosen method fail validation, a press included, sends no request and
\* leaves the stored result as it is; a press with valid inputs starts a
\* call and leaves the stored result until the call ends; when the call
\* returns its six outputs are stored, and when it raises None is stored.
C28_StoredResultIsNoneOrARoute ==
    /\ [](C_NoneOrComplete(stored_result))
    /\ [][(pc = "idle" /\ C_InputsMissing)
             => (C_NoCall' /\ stored_result' = stored_result)]_vars
    /\ [][(pc = "idle" /\ ~C_InputsMissing)
             => /\ stored_result' = stored_result
                /\ pc' \in {"idle", "start"}
                /\ opt_requests' = 0
                /\ dir_requests' = 0]_vars
    /\ [][pc = "returned"
             => (C_NoCall' /\ stored_result' = C_OutputsOfTheCall)]_vars
    /\ [][pc = "failed" => (C_NoCall' /\ stored_result' = None)]_vars

\* a route is stored, the method has been changed and changed back to
\* 'select', and the button is pressed before the browser has reported the
\* selects made anew: the press validates the starting point and the final
\* stop the session still holds, and a call is under way
C28_Witness ==
    /\ pc = "start"
    /\ stored_result # None
    /\ C_NoneOrComplete(stored_result)
    /\ input_method = "select"
    /\ ~rendered
    /\ source_select # <<>>
    /\ final_stop_select # <<>>

=============================================================================
